---- MODULE Spec2Model ----
(***************************************************************************)
(* ssh-control-mcp: the persistent shell session (src/src/ssh/session.ts), *)
(* the shell formatters (shells.ts) and the connection pool                *)
(* (connection-pool.ts), as state machines.                                *)
(*                                                                         *)
(* Strings are sequences of tokens, so that concatenation, indexOf and the *)
(* exit-code pattern are computed as the code computes them.               *)
(***************************************************************************)
EXTENDS Integers, Sequences, FiniteSets, TLC

\* ------------------------------------------------------------------------
\* Bounds of the model
\* ------------------------------------------------------------------------
MaxCmds == 2
MaxChunks == 2
MaxBufChunks == 10002
MaxCalls == 2
MaxManagerCalls == 2
MaxMutations == 2
MaxOutChunks == 3
MaxTime == 4
MaxFrameChunks == 3
MaxShellRequests == 2

\* ------------------------------------------------------------------------
\* Program constants
\* ------------------------------------------------------------------------
MAX_SIZE == 10000
TRIM_TO == 5000
DEFAULT_COMMAND == 30000
\* the default of security.maxConnectionsPerHost
MAX_CONNECTIONS_PER_HOST == 10
\* the default of security.maxSessions
DEFAULT_MAX_SESSIONS == 10

\* ------------------------------------------------------------------------
\* Strings
\* ------------------------------------------------------------------------
Digits == <<"0", "1", "2", "3", "4", "5", "6", "7", "8", "9">>

DigitSet == {Digits[i] : i \in 1..10}

DigitValue(d) == (CHOOSE i \in 1..10 : Digits[i] = d) - 1

RECURSIVE NumberToString(_)
NumberToString(n) ==
  IF n < 10 THEN <<Digits[n + 1]>>
  ELSE NumberToString(n \div 10) \o <<Digits[(n % 10) + 1]>>

RECURSIVE ParseInt(_)
ParseInt(ds) ==
  IF Len(ds) = 0 THEN 0
  ELSE 10 * ParseInt(SubSeq(ds, 1, Len(ds) - 1)) + DigitValue(ds[Len(ds)])

StartsWithAt(s, p, i) ==
  /\ i >= 1
  /\ i + Len(p) - 1 <= Len(s)
  /\ SubSeq(s, i, i + Len(p) - 1) = p

\* String.prototype.indexOf: 0-based index of the first occurrence, or -1
IndexOf(s, p) ==
  IF \E i \in 1..(Len(s) + 1) : StartsWithAt(s, p, i)
  THEN (CHOOSE i \in 1..(Len(s) + 1) :
          /\ StartsWithAt(s, p, i)
          /\ \A j \in 1..(i - 1) : ~StartsWithAt(s, p, j)) - 1
  ELSE -1

\* the longest run of digits of s that starts at position i (1-based)
RECURSIVE DigitRun(_, _)
DigitRun(s, i) ==
  IF i <= Len(s) /\ s[i] \in DigitSet
  THEN <<s[i]>> \o DigitRun(s, i + 1)
  ELSE <<>>

\* String.prototype.substring(a, b): indices clamped to 0..length and swapped
\* when a > b
Substring(s, a, b) ==
  LET clamp(x) == IF x < 0 THEN 0 ELSE IF x > Len(s) THEN Len(s) ELSE x
      lo == IF clamp(a) <= clamp(b) THEN clamp(a) ELSE clamp(b)
      hi == IF clamp(a) <= clamp(b) THEN clamp(b) ELSE clamp(a)
  IN SubSeq(s, lo + 1, hi)

WhiteSpace == {" ", "\n", "\r", "\t"}

RECURSIVE TrimStart(_)
TrimStart(s) ==
  IF s # <<>> /\ Head(s) \in WhiteSpace THEN TrimStart(Tail(s)) ELSE s

RECURSIVE TrimEnd(_)
TrimEnd(s) ==
  IF s # <<>> /\ s[Len(s)] \in WhiteSpace
  THEN TrimEnd(SubSeq(s, 1, Len(s) - 1))
  ELSE s

\* String.prototype.trim
Trim(s) == TrimEnd(TrimStart(s))

\* s.split('\n'): the sequence of lines, never empty
RECURSIVE SplitLines(_)
SplitLines(s) ==
  IF \E i \in 1..Len(s) : s[i] = "\n"
  THEN LET i == CHOOSE k \in 1..Len(s) :
                  s[k] = "\n" /\ \A j \in 1..(k - 1) : s[j] # "\n"
       IN <<SubSeq(s, 1, i - 1)>> \o SplitLines(SubSeq(s, i + 1, Len(s)))
  ELSE <<s>>

\* lines.join('\n')
RECURSIVE JoinLines(_)
JoinLines(lines) ==
  IF Len(lines) = 0 THEN <<>>
  ELSE IF Len(lines) = 1 THEN lines[1]
  ELSE lines[1] \o <<"\n">> \o JoinLines(Tail(lines))

\* ------------------------------------------------------------------------
\* Shell formatters
\* ------------------------------------------------------------------------
ShellTypes == {"bash", "powershell", "cmd"}

NoExitCode == -1

BashFormat(command, startDelimiter, endDelimiter) ==
  <<"echo \"">> \o startDelimiter \o <<"\"; ">> \o command
    \o <<"; echo \"">> \o endDelimiter \o <<":$?\"">>

PowerShellFormat(command, startDelimiter, endDelimiter) ==
  <<"Write-Output \"">> \o startDelimiter \o <<"\"; ">> \o command
    \o <<"; Write-Output \"">> \o endDelimiter \o <<":$LASTEXITCODE\"">>

CmdFormat(command, startDelimiter, endDelimiter) ==
  <<"echo ">> \o startDelimiter \o <<" & ">> \o command
    \o <<" & echo %ERRORLEVEL% > NUL & echo ">> \o endDelimiter
    \o <<":%ERRORLEVEL%">>

formatCommandWithDelimiters(sh, command, startDelimiter, endDelimiter) ==
  CASE sh = "powershell" -> PowerShellFormat(command, startDelimiter, endDelimiter)
    [] sh = "cmd" -> CmdFormat(command, startDelimiter, endDelimiter)
    [] OTHER -> BashFormat(command, startDelimiter, endDelimiter)

getKeepAliveCommand(sh) ==
  CASE sh = "powershell" -> <<"Write-Output \"\"", "\n">>
    [] sh = "cmd" -> <<"echo.", "\n">>
    [] OTHER -> <<"\n">>

parseExitCodeWithoutCapture(output, endDelimiter) ==
  LET pat == endDelimiter \o <<":">>
      hits == {i \in 1..Len(output) :
                 /\ StartsWithAt(output, pat, i)
                 /\ DigitRun(output, i + Len(pat)) # <<>>}
  IN IF hits = {} THEN NoExitCode ELSE 0

\* output.match(new RegExp(endDelimiter + ":(\\d+)")): the leftmost match,
\* its capture the longest digit run; parseInt of the capture, or null
parseExitCode(output, endDelimiter) ==
  LET pat == endDelimiter \o <<":">>
      hits == {i \in 1..Len(output) :
                 /\ StartsWithAt(output, pat, i)
                 /\ DigitRun(output, i + Len(pat)) # <<>>}
  IN IF hits = {} THEN NoExitCode
     ELSE LET first == CHOOSE i \in hits : \A j \in hits : i <= j
          IN ParseInt(DigitRun(output, first + Len(pat)))

\* ------------------------------------------------------------------------
\* State
\* ------------------------------------------------------------------------
VARIABLES
  \* PersistentSession
  sessType,          \* sessionInfo.type
  sessMode,          \* sessionInfo.mode
  shellType,         \* the shell the formatter was created for
  isInitialized,
  isActive,          \* sessionInfo.isActive
  shell,             \* "none" (null), "open", "ended" (end() called), "closed"
  commandQueue,
  currentCommand,
  outputData,        \* the per-command accumulator
  outputBuffer,
  commandHistory,    \* sessionInfo.commandHistory
  keepAliveInterval, \* TRUE while the interval handle is armed
  sessionTimeout,    \* TRUE while the inactivity timer is armed
  cmdTimers,         \* ids of the per-command setTimeout callbacks not yet run
  nextId,            \* the next command id
  delivered,         \* id -> what the request's sink was first called with
  sinkCalls,         \* id -> how often resolve or reject of the request was called
  written,           \* the last text written to the shell channel
  nChunks,           \* inbound chunks handled so far
  events,            \* events emitted by the session, in order
  commandFilter,     \* the commands the installed filter rejects ({}: no filter)
  denied,            \* the commands executeCommand rejected for the filter
  returned,          \* id -> what executeCommand returned without suspending
  lastActivity,      \* sessionInfo.lastActivity
  timerDeadline,     \* when the armed inactivity timer fires (NoDeadline: never)
  closeRan,          \* close() has run
  now,               \* the time, in ticks
  environmentVars,   \* sessionInfo.environmentVars: the keys of the live Map
  snapshot,          \* the last value getSessionInfo returned, as its caller holds it
  bufferResult,      \* what the last getBufferedOutput call returned or threw
  thrown,            \* the last error executeCommand threw, with the arguments
  shellRequests,     \* the client.shell calls of initialize() not called back yet
  \* ConnectionPool
  connections,       \* key -> [client, connected]
  clients,           \* client id -> [key, state] for every Client created
  pending,           \* getConnection calls waiting in createConnection
  acquired,          \* the getConnection calls that returned a client
  nCalls,
  maxConnections,    \* the connection cap the pool was constructed with
  poolErrors,        \* the getConnection calls that threw, with their error
  disconnects,       \* the disconnectAll call in progress and the clients it waits for
  \* SSHConnectionManager
  sessions,          \* the registry: sessionId -> session object
  sessionObjects,    \* every PersistentSession the manager constructed
  creating,          \* createSession calls waiting at an await
  closing,           \* closeSession calls waiting at their await
  executing,         \* executeCommand calls of the manager waiting for the pool
  managerCalls,      \* the calls made to the manager, with their results
  dispatched,        \* the commands that went to a transport or a session
  maxSessions,       \* security.maxSessions
  allowedCommands,   \* security.allowedCommands
  blockedCommands,   \* security.blockedCommands
  closingAll,        \* the closeAll call in progress, and what it has done
  listeners          \* ssh.ts: the handlers the manager has put on its sessions

\* what only the callers of the session and the clock change
callerVars ==
  <<now, environmentVars, snapshot, bufferResult, thrown, shellRequests>>

sessionVars ==
  <<sessType, sessMode, shellType, isInitialized, isActive, shell, commandQueue,
    currentCommand, outputData, outputBuffer, commandHistory, keepAliveInterval,
    sessionTimeout, cmdTimers, nextId, delivered, sinkCalls, written, nChunks,
    events, commandFilter, denied, returned, lastActivity, timerDeadline,
    closeRan, callerVars>>

poolVars ==
  <<connections, clients, pending, acquired, nCalls, maxConnections, poolErrors,
    disconnects>>

managerConfig == <<maxSessions, allowedCommands, blockedCommands>>

managerVars ==
  <<sessions, sessionObjects, creating, closing, executing, managerCalls,
    dispatched, managerConfig, closingAll, listeners>>

vars == <<sessionVars, poolVars, managerVars>>

\* ------------------------------------------------------------------------
\* PersistentSession
\* ------------------------------------------------------------------------
SessionTypes == {"interactive", "background"}

SessionModes == {"normal", "raw"}

Commands == {<<"ls">>}

RawArgs == {"undefined", "true", "false"}

\* currentCommand = null
NullCommand == [id |-> 0, command |-> <<>>, timeout |-> 0, raw |-> FALSE]

\* nothing written to the channel yet
NoWrite == [kind |-> "none", id |-> 0, text |-> <<>>]

NoOutcome == [kind |-> "none", code |-> NoExitCode, stdout |-> <<>>]

CommandIds == 1..MaxCmds

\* sessionInfo.sessionId
sessionId == <<"s1">>

\* the per-session delimiter stem `___CMD_<time>_<random>___`
commandDelimiter == <<"___CMD___">>

\* the id of a request, `<time>_<random>`: one token per request
CommandIdText(id) == <<"id">> \o NumberToString(id)

StartDelimiter(id) == commandDelimiter \o <<"_START_">> \o CommandIdText(id)

EndDelimiter(id) == commandDelimiter \o <<"_END_">> \o CommandIdText(id)

\* the timeoutMs the session is constructed with, in ticks
sessionTimeoutMs == 2

\* this.sessionTimeout is null, or its callback has run
NoDeadline == 0 - 1

\* a reference to an array or a Map: the live object of the session (shared),
\* or an object of its own with the given content
Shared(content) == [shared |-> TRUE, content |-> content]

\* [...array], new Map(map): a new object with the same content
Copy(content) == [shared |-> FALSE, content |-> content]

\* no getSessionInfo call was made yet
NoSnapshot ==
  [taken |-> FALSE, isActive |-> FALSE, commandHistory |-> Copy(<<>>),
   environmentVars |-> Copy({}), mutations |-> 0]

\* executeCommand has not thrown yet
NoError == [error |-> "none", command |-> <<>>, timeout |-> 0]

\* no getBufferedOutput call was made yet
NoResult ==
  [kind |-> "none", lines |-> <<>>, asked |-> [given |-> FALSE, n |-> 0],
   clear |-> FALSE, turn |-> 0]

SessionInit(types, modes, shells) ==
  /\ sessType \in types
  /\ sessMode \in modes
  /\ shellType \in shells
  /\ isInitialized = FALSE
  /\ isActive = FALSE
  /\ shell = "none"
  /\ commandQueue = <<>>
  /\ currentCommand = NullCommand
  /\ outputData = <<>>
  /\ outputBuffer = <<>>
  /\ commandHistory = <<>>
  /\ keepAliveInterval = FALSE
  /\ sessionTimeout = FALSE
  /\ cmdTimers = {}
  /\ nextId = 1
  /\ delivered = [i \in CommandIds |-> NoOutcome]
  /\ sinkCalls = [i \in CommandIds |-> 0]
  /\ written = NoWrite
  /\ nChunks = 0
  /\ events = <<>>
  /\ commandFilter = {}
  /\ denied = {}
  /\ returned = [i \in CommandIds |-> NoOutcome]
  /\ lastActivity = 0
  /\ timerDeadline = NoDeadline
  /\ closeRan = FALSE
  /\ now = 0
  /\ environmentVars = {}
  /\ snapshot = NoSnapshot
  /\ bufferResult = NoResult
  /\ thrown = NoError
  /\ shellRequests = 1

\* emit(name): what the listeners of the event find when they are called, the
\* session's isActive being active at that point
Emitted(name, active) ==
  [name |-> name, isActive |-> active,
   requests |-> Len(commandQueue) + IF currentCommand = NullCommand THEN 0 ELSE 1]

DeadlineKept(time) == timerDeadline

\* setTimeout(callback, this.sessionTimeoutMs) at the given time: when the
\* callback is due
Deadline(time) == time + sessionTimeoutMs

\* initialize() called again before the shell callback of an earlier call:
\* isInitialized is still false, and client.shell is called once more. (Once
\* the session is initialized the call returns at once.)
initialize ==
  /\ ~isInitialized
  /\ shellRequests < MaxShellRequests
  /\ shellRequests' = shellRequests + 1
  /\ UNCHANGED <<sessType, sessMode, shellType, isInitialized, isActive, shell,
                 commandQueue, currentCommand, outputData, outputBuffer,
                 commandHistory, keepAliveInterval, sessionTimeout, cmdTimers,
                 nextId, delivered, sinkCalls, written, nChunks, events,
                 commandFilter, denied, returned, lastActivity, timerDeadline,
                 closeRan, now, environmentVars, snapshot, bufferResult, thrown>>

\* initialize(): the shell callback of client.shell, without error, for a
\* call that is waiting for it; the session is constructed with one
\* initialize() call under way
Initialize ==
  /\ shellRequests > 0
  /\ shellRequests' = shellRequests - 1
  /\ shell' = "open"
  /\ isActive' = TRUE
  /\ isInitialized' = TRUE
  /\ keepAliveInterval' = TRUE      \* startKeepAlive()
  /\ sessionTimeout' = TRUE         \* resetSessionTimeout()
  /\ timerDeadline' = Deadline(now)
  /\ UNCHANGED <<now, environmentVars, snapshot, bufferResult, thrown,
                 lastActivity, closeRan,
                 sessType, sessMode, shellType, commandFilter, denied, returned,
                 commandQueue, currentCommand,
                 outputData, outputBuffer, commandHistory, cmdTimers, nextId,
                 delivered, sinkCalls, written, nChunks, events>>

\* what processNextCommand writes for request c
CommandText(c) ==
  IF c.raw THEN c.command \o <<"\n">>
  ELSE formatCommandWithDelimiters(shellType, c.command, StartDelimiter(c.id),
                                   EndDelimiter(c.id)) \o <<"\n">>

processNextCommandPeek(queue, cur, acc, chan, timers) ==
  IF Len(queue) = 0 \/ shell = "none"
  THEN [queue |-> queue, cur |-> cur, acc |-> acc, chan |-> chan, timers |-> timers]
  ELSE LET c == Head(queue)
       IN [queue |-> queue,
           cur |-> c,
           acc |-> <<>>,
           chan |-> [kind |-> "command", id |-> c.id, text |-> CommandText(c)],
           timers |-> IF c.timeout # 0 THEN timers \cup {c.id} ELSE timers]

\* processNextCommand(), from a state with the given queue, current command,
\* accumulator, last write and timers: the fields it leaves behind
processNextCommand(queue, cur, acc, chan, timers) ==
  IF Len(queue) = 0 \/ shell = "none"
  THEN [queue |-> queue, cur |-> cur, acc |-> acc, chan |-> chan, timers |-> timers]
  ELSE LET c == Head(queue)
       IN [queue |-> Tail(queue),
           cur |-> c,
           acc |-> <<>>,
           chan |-> [kind |-> "command", id |-> c.id, text |-> CommandText(c)],
           timers |-> IF c.timeout # 0 THEN timers \cup {c.id} ELSE timers]

\* the sink of request id is called with outcome o
CallSink(id, o) ==
  /\ sinkCalls' = [sinkCalls EXCEPT ![id] = @ + 1]
  /\ delivered' = [delivered EXCEPT ![id] = IF @ = NoOutcome THEN o ELSE @]

NoCommandInFlightUnchecked(cur) == TRUE

\* !this.currentCommand
NoCommandInFlight(cur) == cur = NullCommand

FilterAcceptsAll(command) == TRUE

\* the command filter, when one is installed, lets the command pass
FilterAccepts(command) == command \notin commandFilter

ReturnsAtEnqueueNever(type) == FALSE

\* this.sessionInfo.type === 'background': executeCommand returns right after
\* queuing, and the request's resolve and reject do nothing
ReturnsAtEnqueue(type) == type = "background"

\* what executeCommand returns on a background session
QueuedResult(command) ==
  [kind |-> "success", code |-> 0,
   stdout |-> <<"Command '">> \o command
                \o <<"' queued in background session '">> \o sessionId
                \o <<"'">>]

\* !command is false
ValidCommand(command) == command # <<>>

AnyTimeout(timeout) == TRUE

\* timeout <= 0 is false
ValidTimeout(timeout) == timeout > 0

\* !this.isInitialized || !this.shell || !this.sessionInfo.isActive is false
SessionReady == isInitialized /\ shell # "none" /\ isActive

\* executeCommand(command, timeout, raw), rejected by one of its three checks:
\* the call throws and nothing else happens
executeCommandRejected(command, timeout, rawArg) ==
  /\ ~(ValidCommand(command) /\ ValidTimeout(timeout) /\ SessionReady)
  /\ thrown' = [error |-> IF ~ValidCommand(command) \/ ~ValidTimeout(timeout)
                           THEN "InvalidArgument"
                           ELSE "SessionInactive",
                command |-> command,
                timeout |-> timeout]
  /\ UNCHANGED <<sessType, sessMode, shellType, isInitialized, isActive, shell,
                 commandQueue, currentCommand, outputData, outputBuffer,
                 commandHistory, keepAliveInterval, sessionTimeout, cmdTimers,
                 nextId, delivered, sinkCalls, written, nChunks, events,
                 commandFilter, denied, returned, lastActivity, timerDeadline,
                 closeRan, shellRequests, now, environmentVars, snapshot, bufferResult>>

\* executeCommand(command, timeout, raw), accepted: the arguments are valid,
\* the session is active and the filter, if any, lets the command pass
executeCommand(command, timeout, rawArg) ==
  /\ ValidCommand(command)
  /\ ValidTimeout(timeout)
  /\ SessionReady
  /\ FilterAccepts(command)
  /\ nextId <= MaxCmds
  /\ LET request == [id |-> nextId, command |-> command, timeout |-> timeout,
                     raw |-> IF rawArg = "undefined" THEN sessMode = "raw"
                             ELSE rawArg = "true"]
         queued == Append(commandQueue, request)
         next == IF NoCommandInFlight(currentCommand)
                 THEN processNextCommand(queued, currentCommand, outputData,
                                         written, cmdTimers)
                 ELSE [queue |-> queued, cur |-> currentCommand,
                       acc |-> outputData, chan |-> written, timers |-> cmdTimers]
     IN /\ commandQueue' = next.queue
        /\ currentCommand' = next.cur
        /\ outputData' = next.acc
        /\ written' = next.chan
        /\ cmdTimers' = next.timers
        /\ commandHistory' = Append(commandHistory, command)
  /\ nextId' = nextId + 1
  /\ lastActivity' = now
  /\ sessionTimeout' = TRUE         \* resetSessionTimeout()
  /\ timerDeadline' = Deadline(now)
  /\ returned' = IF ReturnsAtEnqueue(sessType)
                 THEN [returned EXCEPT ![nextId] = QueuedResult(command)]
                 ELSE returned
  /\ UNCHANGED <<callerVars, closeRan,
                 sessType, sessMode, shellType, commandFilter, denied,
                 isInitialized, isActive, shell,
                 outputBuffer, keepAliveInterval, delivered, sinkCalls, nChunks,
                 events>>

\* setCommandFilter(filter): the filter is installed; it rejects the commands
\* of rejects
setCommandFilter(rejects) ==
  /\ commandFilter' = rejects
  /\ UNCHANGED <<callerVars, lastActivity, timerDeadline, closeRan,
                 sessType, sessMode, shellType, isInitialized, isActive, shell,
                 commandQueue, currentCommand, outputData, outputBuffer,
                 commandHistory, keepAliveInterval, sessionTimeout, cmdTimers,
                 nextId, delivered, sinkCalls, written, nChunks, events, denied,
                 returned>>

\* executeCommand(command, timeout, raw), rejected by the filter: the call
\* fails with the filter's error before anything is queued
executeCommandDenied(command, timeout, rawArg) ==
  /\ ValidCommand(command)
  /\ ValidTimeout(timeout)
  /\ SessionReady
  /\ ~FilterAccepts(command)
  /\ denied' = denied \cup {command}
  /\ UNCHANGED <<callerVars, lastActivity, timerDeadline, closeRan,
                 sessType, sessMode, shellType, isInitialized, isActive, shell,
                 commandQueue, currentCommand, outputData, outputBuffer,
                 commandHistory, keepAliveInterval, sessionTimeout, cmdTimers,
                 nextId, delivered, sinkCalls, written, nChunks, events,
                 commandFilter, returned>>

\* getSessionInfo(): a new object with the fields of sessionInfo, a copy of
\* commandHistory and a copy of environmentVars
getSessionInfo ==
  /\ snapshot' = [taken |-> TRUE,
                  isActive |-> isActive,
                  commandHistory |-> Copy(commandHistory),
                  environmentVars |-> Copy(environmentVars),
                  mutations |-> 0]
  /\ UNCHANGED <<sessType, sessMode, shellType, isInitialized, isActive, shell,
                 commandQueue, currentCommand, outputData, outputBuffer,
                 commandHistory, keepAliveInterval, sessionTimeout, cmdTimers,
                 nextId, delivered, sinkCalls, written, nChunks, events,
                 commandFilter, denied, returned, lastActivity, timerDeadline,
                 closeRan, shellRequests, now, environmentVars, bufferResult, thrown>>

\* what the holder of reference ref reads, the live object being live
Deref(ref, live) == IF ref.shared THEN live ELSE ref.content

\* the caller does info.commandHistory.push('fake command')
PushOnReturnedHistory ==
  /\ snapshot.taken
  /\ snapshot.mutations < MaxMutations
  /\ IF snapshot.commandHistory.shared
     THEN /\ commandHistory' = Append(commandHistory, <<"fake command">>)
          /\ snapshot' = [snapshot EXCEPT !.mutations = @ + 1]
     ELSE /\ snapshot' = [snapshot EXCEPT
                            !.commandHistory.content = Append(@, <<"fake command">>),
                            !.mutations = @ + 1]
          /\ UNCHANGED commandHistory
  /\ UNCHANGED <<sessType, sessMode, shellType, isInitialized, isActive, shell,
                 commandQueue, currentCommand, outputData, outputBuffer,
                 keepAliveInterval, sessionTimeout, cmdTimers,
                 nextId, delivered, sinkCalls, written, nChunks, events,
                 commandFilter, denied, returned, lastActivity, timerDeadline,
                 closeRan, shellRequests, now, environmentVars, bufferResult, thrown>>

\* the caller does info.isActive = !info.isActive
ToggleReturnedIsActive ==
  /\ snapshot.taken
  /\ snapshot.mutations < MaxMutations
  /\ snapshot' = [snapshot EXCEPT !.isActive = ~@, !.mutations = @ + 1]
  /\ UNCHANGED <<sessType, sessMode, shellType, isInitialized, isActive, shell,
                 commandQueue, currentCommand, outputData, outputBuffer,
                 commandHistory, keepAliveInterval, sessionTimeout, cmdTimers,
                 nextId, delivered, sinkCalls, written, nChunks, events,
                 commandFilter, denied, returned, lastActivity, timerDeadline,
                 closeRan, shellRequests, now, environmentVars, bufferResult, thrown>>

\* the caller does info.environmentVars.set('K', ...)
SetOnReturnedEnvironmentVars ==
  /\ snapshot.taken
  /\ snapshot.mutations < MaxMutations
  /\ IF snapshot.environmentVars.shared
     THEN /\ environmentVars' = environmentVars \cup {"K"}
          /\ snapshot' = [snapshot EXCEPT !.mutations = @ + 1]
     ELSE /\ snapshot' = [snapshot EXCEPT
                            !.environmentVars.content = @ \cup {"K"},
                            !.mutations = @ + 1]
          /\ UNCHANGED environmentVars
  /\ UNCHANGED <<sessType, sessMode, shellType, isInitialized, isActive, shell,
                 commandQueue, currentCommand, outputData, outputBuffer,
                 commandHistory, keepAliveInterval, sessionTimeout, cmdTimers,
                 nextId, delivered, sinkCalls, written, nChunks, events,
                 commandFilter, denied, returned, lastActivity, timerDeadline,
                 closeRan, shellRequests, now, bufferResult, thrown>>

\* the stdout parseCommandOutput cuts out of the accumulator
CleanOutput(acc, startIndex, startPattern, endIndex) ==
  LET output == Trim(Substring(acc, startIndex + Len(startPattern), endIndex))
      lines0 == SplitLines(output)
      lines1 == IF lines0[1] = <<>> THEN Tail(lines0) ELSE lines0
      lines2 == IF Len(lines1) > 0 /\ lines1[Len(lines1)] = <<>>
                THEN SubSeq(lines1, 1, Len(lines1) - 1)
                ELSE lines1
  IN JoinLines(lines2)

parseCommandOutputWithoutStart(cur, acc) ==
  IF cur = NullCommand \/ cur.raw THEN NoOutcome
  ELSE LET endDelimiter == EndDelimiter(cur.id)
           exitCode == parseExitCode(acc, endDelimiter)
           endPattern == endDelimiter \o <<":">> \o NumberToString(exitCode)
           endIndex == IndexOf(acc, endPattern)
       IN IF exitCode # NoExitCode /\ endIndex # -1
          THEN [kind |-> "success", code |-> exitCode,
                stdout |-> Trim(Substring(acc, 0, endIndex))]
          ELSE NoOutcome

parseCommandOutputIgnoringRaw(cur, acc) ==
  IF cur = NullCommand THEN NoOutcome
  ELSE LET endDelimiter == EndDelimiter(cur.id)
           exitCode == parseExitCode(acc, endDelimiter)
           startPattern == StartDelimiter(cur.id)
           startIndex == IndexOf(acc, startPattern)
           endPattern == endDelimiter \o <<":">> \o NumberToString(exitCode)
           endIndex == IndexOf(acc, endPattern)
       IN IF exitCode # NoExitCode /\ startIndex # -1 /\ endIndex # -1
          THEN [kind |-> "success", code |-> exitCode,
                stdout |-> CleanOutput(acc, startIndex, startPattern, endIndex)]
          ELSE NoOutcome

\* parseCommandOutput() on accumulator acc with cur in flight: the outcome it
\* resolves cur with, or NoOutcome when it leaves cur in flight
parseCommandOutput(cur, acc) ==
  IF cur = NullCommand \/ cur.raw THEN NoOutcome
  ELSE LET endDelimiter == EndDelimiter(cur.id)
           exitCode == parseExitCode(acc, endDelimiter)
           startPattern == StartDelimiter(cur.id)
           startIndex == IndexOf(acc, startPattern)
           endPattern == endDelimiter \o <<":">> \o NumberToString(exitCode)
           endIndex == IndexOf(acc, endPattern)
       IN IF exitCode # NoExitCode /\ startIndex # -1 /\ endIndex # -1
          THEN [kind |-> "success", code |-> exitCode,
                stdout |-> CleanOutput(acc, startIndex, startPattern, endIndex)]
          ELSE NoOutcome

SliceFirst(buffer, n) ==
  IF Len(buffer) <= n THEN buffer ELSE SubSeq(buffer, 1, n)

\* outputBuffer.slice(-n)
SliceLast(buffer, n) ==
  IF Len(buffer) <= n THEN buffer
  ELSE SubSeq(buffer, Len(buffer) - n + 1, Len(buffer))

BufferAfterAnyType(buffer, data) ==
  LET pushed == Append(buffer, data)
  IN IF Len(pushed) > MAX_SIZE THEN SliceLast(pushed, TRIM_TO) ELSE pushed

\* the output buffer after handleShellOutput(data)
BufferAfter(buffer, data) ==
  IF sessType = "background"
  THEN LET pushed == Append(buffer, data)
       IN IF Len(pushed) > MAX_SIZE THEN SliceLast(pushed, TRIM_TO) ELSE pushed
  ELSE buffer

\* the lines argument of getBufferedOutput: undefined, or a number
LinesArgs ==
  {[given |-> FALSE, n |-> 0]} \cup {[given |-> TRUE, n |-> k] : k \in -1..3}

\* getBufferedOutput(lines, clear): what the call returns or throws, with the
\* arguments it was called with; turn tells one call from the next
getBufferedOutput(lines, clear) ==
  /\ IF lines.given /\ lines.n <= 0
     THEN /\ bufferResult' = [kind |-> "InvalidArgument", lines |-> <<>>,
                              asked |-> lines, clear |-> clear,
                              turn |-> 1 - bufferResult.turn]
          /\ UNCHANGED outputBuffer
     ELSE /\ bufferResult' =
               [kind |-> "ok",
                lines |-> IF lines.given THEN SliceLast(outputBuffer, lines.n)
                          ELSE outputBuffer,
                asked |-> lines, clear |-> clear,
                turn |-> 1 - bufferResult.turn]
          /\ outputBuffer' = IF clear THEN <<>> ELSE outputBuffer
  /\ UNCHANGED <<sessType, sessMode, shellType, isInitialized, isActive, shell,
                 commandQueue, currentCommand, outputData,
                 commandHistory, keepAliveInterval, sessionTimeout, cmdTimers,
                 nextId, delivered, sinkCalls, written, nChunks, events,
                 commandFilter, denied, returned, lastActivity, timerDeadline,
                 closeRan, shellRequests, now, environmentVars, snapshot, thrown>>

\* handleShellOutput(data): a chunk from the shell's stdout or stderr
handleShellOutput(data) ==
  /\ shell \in {"open", "ended"}
  /\ outputBuffer' = BufferAfter(outputBuffer, data)
  /\ nChunks' = nChunks + 1
  /\ IF currentCommand # NullCommand
     THEN LET acc == outputData \o data
              result == parseCommandOutput(currentCommand, acc)
          IN IF result # NoOutcome
             THEN LET next == processNextCommand(commandQueue, NullCommand, acc,
                                                 written, cmdTimers)
                  IN /\ CallSink(currentCommand.id, result)
                     /\ commandQueue' = next.queue
                     /\ currentCommand' = next.cur
                     /\ outputData' = next.acc
                     /\ written' = next.chan
                     /\ cmdTimers' = next.timers
             ELSE /\ outputData' = acc
                  /\ UNCHANGED <<commandQueue, currentCommand, written, cmdTimers,
                                 delivered, sinkCalls>>
     ELSE UNCHANGED <<commandQueue, currentCommand, outputData, written,
                      cmdTimers, delivered, sinkCalls>>
  /\ UNCHANGED <<callerVars, lastActivity, timerDeadline, closeRan,
                 sessType, sessMode, shellType, commandFilter, denied, returned,
                 isInitialized, isActive, shell,
                 commandHistory, keepAliveInterval, sessionTimeout, nextId,
                 events>>

TimedOutCommandUnchecked(id) == id

\* the request the timer callback of request id acts on: the current command
\* when that still is request id (this.currentCommand?.id === commandId), else
\* none (0)
TimedOutCommand(id) == IF currentCommand.id = id THEN id ELSE 0

\* the setTimeout callback armed by processNextCommand for request id
CommandTimer(id) ==
  /\ id \in cmdTimers
  /\ IF TimedOutCommand(id) # 0
     THEN LET next == processNextCommand(commandQueue, NullCommand, outputData,
                                         written, cmdTimers \ {id})
          IN /\ IF currentCommand.raw
                THEN CallSink(TimedOutCommand(id),
                              [kind |-> "success", code |-> 0,
                               stdout |-> outputData])
                ELSE CallSink(TimedOutCommand(id),
                              [kind |-> "CommandTimeout", code |-> NoExitCode,
                               stdout |-> <<>>])
             /\ commandQueue' = next.queue
             /\ currentCommand' = next.cur
             /\ outputData' = next.acc
             /\ written' = next.chan
             /\ cmdTimers' = next.timers
     ELSE /\ cmdTimers' = cmdTimers \ {id}
          /\ UNCHANGED <<commandQueue, currentCommand, outputData, written,
                         delivered, sinkCalls>>
  /\ UNCHANGED <<callerVars, lastActivity, timerDeadline, closeRan,
                 sessType, sessMode, shellType, commandFilter, denied, returned,
                 isInitialized, isActive, shell,
                 outputBuffer, commandHistory, keepAliveInterval, sessionTimeout,
                 nextId, nChunks, events>>

KeepAliveIdleIgnoringCurrent ==
  /\ shell # "none"
  /\ isActive
  /\ Len(commandQueue) = 0

\* the condition under which the keep-alive interval callback writes
KeepAliveIdle ==
  /\ shell # "none"
  /\ isActive
  /\ Len(commandQueue) = 0
  /\ currentCommand = NullCommand

\* the setInterval callback of startKeepAlive, when it writes
KeepAlive ==
  /\ keepAliveInterval
  /\ KeepAliveIdle
  /\ written' = [kind |-> "keepalive", id |-> 0,
                 text |-> getKeepAliveCommand(shellType)]
  /\ UNCHANGED <<callerVars, lastActivity, timerDeadline, closeRan,
                 sessType, sessMode, shellType, commandFilter, denied, returned,
                 isInitialized, isActive, shell,
                 commandQueue, currentCommand, outputData, outputBuffer,
                 commandHistory, keepAliveInterval, sessionTimeout, cmdTimers,
                 nextId, delivered, sinkCalls, nChunks, events>>

\* time passes, but not beyond the moment an armed inactivity timer is due
Tick ==
  /\ now < MaxTime
  /\ sessionTimeout => now < timerDeadline
  /\ now' = now + 1
  /\ UNCHANGED <<sessType, sessMode, shellType, isInitialized, isActive, shell,
                 commandQueue, currentCommand, outputData, outputBuffer,
                 commandHistory, keepAliveInterval, sessionTimeout, cmdTimers,
                 nextId, delivered, sinkCalls, written, nChunks, events,
                 commandFilter, denied, returned, lastActivity, timerDeadline,
                 closeRan, shellRequests, environmentVars, snapshot, bufferResult, thrown>>

cleanupKeepingActive ==
  /\ keepAliveInterval' = FALSE
  /\ sessionTimeout' = FALSE
  /\ timerDeadline' = NoDeadline
  /\ isActive' = isActive
  /\ currentCommand' = NullCommand
  /\ commandQueue' = <<>>

\* cleanup()
cleanup ==
  /\ keepAliveInterval' = FALSE
  /\ sessionTimeout' = FALSE
  /\ timerDeadline' = NoDeadline
  /\ isActive' = FALSE
  /\ currentCommand' = NullCommand
  /\ commandQueue' = <<>>

\* close(): cleanup(), then shell.end() when there is a shell
close ==
  /\ cleanup
  /\ closeRan' = TRUE
  /\ shell' = IF shell = "open" THEN "ended" ELSE shell
  /\ UNCHANGED <<callerVars, lastActivity,
                 sessType, sessMode, shellType, commandFilter, denied, returned,
                 isInitialized, outputData,
                 outputBuffer, commandHistory, cmdTimers, nextId, delivered,
                 sinkCalls, written, nChunks, events>>

\* the inactivity timer armed by resetSessionTimeout fires: emit('timeout'),
\* then close()
SessionTimeout ==
  /\ sessionTimeout
  /\ events' = Append(events, Emitted("timeout", isActive))
  /\ cleanup
  /\ closeRan' = TRUE
  /\ shell' = IF shell = "open" THEN "ended" ELSE shell
  /\ UNCHANGED <<callerVars, lastActivity,
                 sessType, sessMode, shellType, commandFilter, denied, returned,
                 isInitialized, outputData,
                 outputBuffer, commandHistory, cmdTimers, nextId, delivered,
                 sinkCalls, written, nChunks>>

\* the 'close' event of the shell channel: isActive = false, emit('closed'),
\* cleanup()
ChannelClose ==
  /\ shell \in {"open", "ended"}
  /\ shell' = "closed"
  /\ events' = Append(events, Emitted("closed", FALSE))
  /\ cleanup
  /\ UNCHANGED <<callerVars, lastActivity, closeRan,
                 sessType, sessMode, shellType, commandFilter, denied, returned,
                 isInitialized, outputData,
                 outputBuffer, commandHistory, cmdTimers, nextId, delivered,
                 sinkCalls, written, nChunks>>

\* the inactivity timer is due: its callback runs
InactivityTimerFires ==
  /\ now >= timerDeadline
  /\ SessionTimeout

\* ------------------------------------------------------------------------
\* ConnectionPool
\* ------------------------------------------------------------------------
\* the (username, host, port) triples the callers ask for
Targets ==
  {[username |-> <<"u">>, host |-> <<"h">>, port |-> 22],
   [username |-> <<"u">>, host |-> <<"h">>, port |-> 2222],
   [username |-> <<"u", "@", "x">>, host |-> <<"h">>, port |-> 22],
   [username |-> <<"u">>, host |-> <<"x", "@", "h">>, port |-> 22]}

\* `ssh-${username}@${host}:${port}`
ConnectionKey(username, host, port) ==
  <<"ssh-">> \o username \o <<"@">> \o host \o <<":">> \o NumberToString(port)

\* no disconnectAll call is in progress
NoDisconnect == [active |-> FALSE, waits |-> {}]

\* new ConnectionPool(), with a cap among caps
PoolInit(caps) ==
  /\ connections = <<>>
  /\ clients = <<>>
  /\ pending = {}
  /\ acquired = {}
  /\ nCalls = 0
  /\ maxConnections \in caps
  /\ poolErrors = {}
  /\ disconnects = NoDisconnect

\* connections.set(key, info)
MapSet(map, key, info) ==
  [k \in (DOMAIN map) \cup {key} |-> IF k = key THEN info ELSE map[k]]

\* connections.delete(key)
MapDelete(map, key) == [k \in (DOMAIN map) \ {key} |-> map[k]]

\* what a getConnection call that returned is remembered by: its arguments, the
\* client it returned, and the client of the connected entry its key had when
\* the call was made (0: none)
Acquisition(username, host, port, client, prior) ==
  [username |-> username, host |-> host, port |-> port, client |-> client,
   prior |-> prior]

\* a getConnection call that threw
PoolError(call, error) == [call |-> call, error |-> error]

\* the cap check of acquire: total entries >= the per-pool cap
LimitReached(conns) == Cardinality(DOMAIN conns) >= maxConnections

\* getConnection(host, username, privateKeyPath, port) up to its first await:
\* the arguments are valid; a dead entry is evicted, and a call that has to
\* connect fails with 'Maximum connection limit' when the pool is at its cap
getConnection(host, username, port) ==
  /\ nCalls < MaxCalls
  /\ host # <<>> /\ username # <<>>
  /\ port > 0 /\ port <= 65535
  /\ nCalls' = nCalls + 1
  /\ LET connectionKey == ConnectionKey(username, host, port)
     IN IF connectionKey \in DOMAIN connections
           /\ connections[connectionKey].connected
        THEN /\ acquired' = acquired \cup
                  {Acquisition(username, host, port,
                               connections[connectionKey].client,
                               connections[connectionKey].client)}
             /\ UNCHANGED <<connections, pending, clients, poolErrors>>
        ELSE LET remaining == MapDelete(connections, connectionKey)
             IN /\ connections' = remaining
                /\ IF LimitReached(remaining)
                   THEN /\ poolErrors' = poolErrors \cup
                             {PoolError(nCalls + 1, "LimitExceeded")}
                        /\ UNCHANGED pending
                   ELSE /\ pending' = pending \cup
                             {[call |-> nCalls + 1, username |-> username,
                               host |-> host, port |-> port, client |-> 0]}
                        /\ UNCHANGED poolErrors
                /\ UNCHANGED <<acquired, clients>>
  /\ UNCHANGED <<maxConnections, disconnects>>

\* createConnection: the key file is read, new Client(), client.connect(...)
KeyRead(p) ==
  /\ p \in pending
  /\ p.client = 0
  /\ clients' = Append(clients, [key |-> ConnectionKey(p.username, p.host, p.port),
                                 state |-> "connecting"])
  /\ pending' = (pending \ {p}) \cup {[p EXCEPT !.client = Len(clients) + 1]}
  /\ UNCHANGED <<connections, acquired, nCalls, maxConnections, poolErrors,
                 disconnects>>

\* createConnection: readFile fails and getConnection throws
KeyReadFailure(p) ==
  /\ p \in pending
  /\ p.client = 0
  /\ pending' = pending \ {p}
  /\ poolErrors' = poolErrors \cup {PoolError(p.call, "KeyUnavailable")}
  /\ UNCHANGED <<connections, clients, acquired, nCalls, maxConnections,
                 disconnects>>

\* the client's 'ready' event: createConnection resolves and getConnection
\* inserts the entry and returns the client
ClientReady(p) ==
  /\ p \in pending
  /\ p.client # 0
  /\ clients[p.client].state = "connecting"
  /\ clients' = [clients EXCEPT ![p.client].state = "ready"]
  /\ connections' = MapSet(connections, ConnectionKey(p.username, p.host, p.port),
                           [client |-> p.client, connected |-> TRUE])
  /\ acquired' = acquired \cup
       {Acquisition(p.username, p.host, p.port, p.client, 0)}
  /\ pending' = pending \ {p}
  /\ UNCHANGED <<nCalls, maxConnections, poolErrors, disconnects>>

\* the client's 'error' event or the handshake timer: createConnection rejects
ConnectFailure(p) ==
  /\ p \in pending
  /\ p.client # 0
  /\ pending' = pending \ {p}
  /\ poolErrors' = poolErrors \cup {PoolError(p.call, "ConnectionFailed")}
  /\ UNCHANGED <<connections, clients, acquired, nCalls, maxConnections,
                 disconnects>>

MarkNothing(conns, connectionKey) == conns

\* the 'close' handler of a client created for connectionKey: the entry under
\* that key, if any, gets connected = false
MarkDisconnected(conns, connectionKey) ==
  IF connectionKey \in DOMAIN conns
  THEN [conns EXCEPT ![connectionKey].connected = FALSE]
  ELSE conns

\* the 'close' event of client c: the entry under the client's key, if any, is
\* marked disconnected
ClientClose(c) ==
  /\ c \in 1..Len(clients)
  /\ clients[c].state # "closed"
  /\ clients' = [clients EXCEPT ![c].state = "closed"]
  /\ connections' = MarkDisconnected(connections, clients[c].key)
  /\ disconnects' = [disconnects EXCEPT !.waits = @ \ {c}]
  /\ UNCHANGED <<pending, acquired, nCalls, maxConnections, poolErrors>>

\* the clients of the entries marked connected
ConnectedClients(conns) ==
  {conns[k].client : k \in {j \in DOMAIN conns : conns[j].connected}}

\* disconnectAll() up to its await: connInfo.client.end() on every entry
\* marked connected, each with a once('close') listener and a FORCE_CLOSE
\* timer; the entries not connected are not waited for
disconnectAll ==
  /\ ~disconnects.active
  /\ clients' = [c \in DOMAIN clients |->
                   IF c \in ConnectedClients(connections)
                   THEN [clients[c] EXCEPT !.state = "ending"]
                   ELSE clients[c]]
  /\ disconnects' = [active |-> TRUE, waits |-> ConnectedClients(connections)]
  /\ UNCHANGED <<connections, pending, acquired, nCalls, maxConnections,
                 poolErrors>>

\* the FORCE_CLOSE timer of disconnectAll for client c: the wait for c is over
ForceCloseTimer(c) ==
  /\ c \in disconnects.waits
  /\ disconnects' = [disconnects EXCEPT !.waits = @ \ {c}]
  /\ UNCHANGED <<connections, clients, pending, acquired, nCalls,
                 maxConnections, poolErrors>>

DisconnectAllReturnKeepingEntries ==
  /\ disconnects.active
  /\ disconnects.waits = {}
  /\ disconnects' = NoDisconnect
  /\ UNCHANGED <<connections, clients, pending, acquired, nCalls,
                 maxConnections, poolErrors>>

\* disconnectAll() after its await: every wait is over, connections.clear()
DisconnectAllReturn ==
  /\ disconnects.active
  /\ disconnects.waits = {}
  /\ connections' = <<>>
  /\ disconnects' = NoDisconnect
  /\ UNCHANGED <<clients, pending, acquired, nCalls, maxConnections, poolErrors>>

\* ------------------------------------------------------------------------
\* SSHConnectionManager
\* ------------------------------------------------------------------------
\* the session ids the callers use
SessionIds == {"a", "b"}

\* the commands the callers of the manager send
ManagerCommands == {<<"ls">>, <<"rm", " ", "x">>}

\* the security section without a command policy
NoPolicy == [allowedCommands |-> {}, blockedCommands |-> {}]

\* new RegExp(pattern).test(command), for a pattern anchored at the start
PatternMatches(pattern, command) == StartsWithAt(command, pattern, 1)

\* no closeAll call is in progress
NoCloseAll == [stage |-> "none", call |-> 0, registered |-> {}]

\* new SSHConnectionManager(config): an empty registry, and the security
\* section of the configuration
ManagerInit(limits, policies) ==
  /\ sessions = <<>>
  /\ sessionObjects = <<>>
  /\ creating = {}
  /\ closing = {}
  /\ executing = {}
  /\ managerCalls = <<>>
  /\ dispatched = {}
  /\ closingAll = NoCloseAll
  /\ listeners = {}
  /\ maxSessions \in limits
  /\ \E policy \in policies :
       /\ allowedCommands = policy.allowedCommands
       /\ blockedCommands = policy.blockedCommands

\* a call of the manager's API: what was called, with which session id and
\* command, whether the id was registered when the call started, whether the
\* call asked the pool for a transport, and how the call ended
ManagerCall(op, id, command, existed) ==
  [op |-> op, sessionId |-> id, command |-> command, existed |-> existed,
   pool |-> FALSE, result |-> "pending"]

\* a new PersistentSession(sessionId, ...), before initialize()
NewSession(id) ==
  [sessionId |-> id, isActive |-> FALSE, shell |-> "none", timer |-> FALSE,
   emitted |-> {}]

\* no continuation of an awaited, already settled promise is waiting to run:
\* I/O events and timers run only then
NoMicrotask ==
  /\ closing = {}
  /\ closingAll.stage # "sessions"
  /\ ~(disconnects.active /\ disconnects.waits = {})

PolicyAllowsAll(command) == TRUE

\* the command policy: when allowedCommands is configured the command must
\* match one of its patterns, and that decides; otherwise the command must
\* match no pattern of blockedCommands
PolicyAllows(command) ==
  IF allowedCommands # {}
  THEN \E p \in allowedCommands : PatternMatches(p, command)
  ELSE \A p \in blockedCommands : ~PatternMatches(p, command)

\* the check of createSession against security.maxSessions
SessionLimitReached(registry) == Cardinality(DOMAIN registry) >= maxSessions

\* the call that is being made: the next entry of managerCalls
ThisCall == Len(managerCalls) + 1

\* call n ends with result
Returned(calls, n, result) == [calls EXCEPT ![n].result = result]

\* createSession(sessionId, ...) up to its first await: the id is checked
\* against the registry, then the count against maxSessions, then the pool is
\* asked for a transport
createSession(id) ==
  /\ Len(managerCalls) < MaxManagerCalls
  /\ id # ""
  /\ LET call == ManagerCall("createSession", id, <<>>, id \in DOMAIN sessions)
     IN IF id \in DOMAIN sessions
        THEN /\ managerCalls' =
                  Append(managerCalls, [call EXCEPT !.result = "Duplicate"])
             /\ UNCHANGED creating
        ELSE IF SessionLimitReached(sessions)
        THEN /\ managerCalls' =
                  Append(managerCalls, [call EXCEPT !.result = "LimitExceeded"])
             /\ UNCHANGED creating
        ELSE /\ managerCalls' = Append(managerCalls, [call EXCEPT !.pool = TRUE])
             /\ creating' = creating \cup
                  {[call |-> ThisCall, sessionId |-> id, stage |-> "acquire",
                    object |-> 0]}
  /\ UNCHANGED <<sessions, sessionObjects, closing, executing, dispatched,
                 managerConfig, closingAll, listeners>>

\* createSession: pool.getConnection resolved; new PersistentSession(...), and
\* initialize() calls client.shell
TransportAcquired(c) ==
  /\ c \in creating
  /\ c.stage = "acquire"
  /\ NoMicrotask
  /\ sessionObjects' = Append(sessionObjects, NewSession(c.sessionId))
  /\ creating' = (creating \ {c}) \cup
       {[c EXCEPT !.stage = "shell", !.object = Len(sessionObjects) + 1]}
  /\ UNCHANGED <<sessions, closing, executing, managerCalls, dispatched,
                 managerConfig, closingAll, listeners>>

\* createSession: pool.getConnection rejected
TransportFailed(c) ==
  /\ c \in creating
  /\ c.stage = "acquire"
  /\ NoMicrotask
  /\ creating' = creating \ {c}
  /\ managerCalls' = Returned(managerCalls, c.call, "ConnectionError")
  /\ UNCHANGED <<sessions, sessionObjects, closing, executing, dispatched,
                 managerConfig, closingAll, listeners>>

\* initialize(): the callback of client.shell, without error: the session is
\* active, its handlers are installed and its timers armed; the startup delay
\* begins
ShellOpened(c) ==
  /\ c \in creating
  /\ c.stage = "shell"
  /\ NoMicrotask
  /\ sessionObjects' =
       [sessionObjects EXCEPT ![c.object].isActive = TRUE,
                              ![c.object].shell = "open",
                              ![c.object].timer = TRUE]
  /\ creating' = (creating \ {c}) \cup {[c EXCEPT !.stage = "settle"]}
  /\ UNCHANGED <<sessions, closing, executing, managerCalls, dispatched,
                 managerConfig, closingAll, listeners>>

\* initialize(): the callback of client.shell with an error; createSession
\* throws
ShellFailed(c) ==
  /\ c \in creating
  /\ c.stage = "shell"
  /\ NoMicrotask
  /\ creating' = creating \ {c}
  /\ managerCalls' = Returned(managerCalls, c.call, "ShellFailure")
  /\ UNCHANGED <<sessions, sessionObjects, closing, executing, dispatched,
                 managerConfig, closingAll, listeners>>

\* this.sessions.set(sessionId, session)
Register(registry, id, object) == MapSet(registry, id, object)

\* the startup delay of initialize() is over: initialize() resolves, and
\* createSession registers the session and returns it
StartupDelayElapsed(c) ==
  /\ c \in creating
  /\ c.stage = "settle"
  /\ NoMicrotask
  /\ sessions' = Register(sessions, c.sessionId, c.object)
  /\ creating' = creating \ {c}
  /\ managerCalls' = Returned(managerCalls, c.call, "created")
  /\ UNCHANGED <<sessionObjects, closing, executing, dispatched, managerConfig, closingAll, listeners>>

\* a close() that leaves the session as it is
SessionLeftOpen(s) == s

\* PersistentSession.close(): cleanup(), then shell.end() when there is a
\* shell
ClosedSession(s) ==
  [s EXCEPT !.isActive = FALSE, !.timer = FALSE,
            !.shell = IF s.shell = "open" THEN "ended" ELSE s.shell]

\* closeSession(sessionId) up to its await: false when the id is not
\* registered, else session.close()
closeSession(id) ==
  /\ Len(managerCalls) < MaxManagerCalls
  /\ id # ""
  /\ LET call == ManagerCall("closeSession", id, <<>>, id \in DOMAIN sessions)
     IN IF id \notin DOMAIN sessions
        THEN /\ managerCalls' =
                  Append(managerCalls, [call EXCEPT !.result = "false"])
             /\ UNCHANGED <<sessionObjects, closing>>
        ELSE /\ managerCalls' = Append(managerCalls, call)
             /\ sessionObjects' =
                  [sessionObjects EXCEPT
                     ![sessions[id]] = ClosedSession(sessionObjects[sessions[id]])]
             /\ closing' = closing \cup {[call |-> ThisCall, sessionId |-> id]}
  /\ UNCHANGED <<sessions, creating, executing, dispatched, managerConfig, closingAll, listeners>>

\* the session objects of the registry
Registered(registry) == {registry[id] : id \in DOMAIN registry}

\* closeAll() up to its first await: session.close() on every session of the
\* registry
closeAll ==
  /\ Len(managerCalls) < MaxManagerCalls
  /\ closingAll.stage = "none"
  /\ sessionObjects' =
       [o \in DOMAIN sessionObjects |->
          IF o \in Registered(sessions) THEN ClosedSession(sessionObjects[o])
          ELSE sessionObjects[o]]
  /\ closingAll' = [stage |-> "sessions", call |-> ThisCall,
                    registered |-> Registered(sessions)]
  /\ managerCalls' = Append(managerCalls, ManagerCall("closeAll", "", <<>>, FALSE))
  /\ UNCHANGED <<sessions, creating, closing, executing, dispatched,
                 managerConfig, listeners>>

\* closeAll() after await Promise.all(closePromises): sessions.clear(), then
\* pool.disconnectAll() up to its await
CloseAllSessionsClosed ==
  /\ closingAll.stage = "sessions"
  /\ sessions' = <<>>
  /\ closingAll' = [closingAll EXCEPT !.stage = "pool"]
  /\ disconnectAll
  /\ UNCHANGED <<sessionObjects, creating, closing, executing, managerCalls,
                 dispatched, managerConfig, listeners>>

\* closeAll() after await this.pool.disconnectAll(): the pool has cleared its
\* entries, and closeAll returns
CloseAllReturn ==
  /\ closingAll.stage = "pool"
  /\ DisconnectAllReturn
  /\ closingAll' = [closingAll EXCEPT !.stage = "done"]
  /\ managerCalls' = Returned(managerCalls, closingAll.call, "returned")
  /\ UNCHANGED <<sessions, sessionObjects, creating, closing, executing,
                 dispatched, managerConfig, listeners>>

KeepRegistered(registry, id) == registry

\* this.sessions.delete(sessionId)
Unregister(registry, id) == MapDelete(registry, id)

\* closeSession after its await: the id is deleted from the registry and the
\* call returns true
CloseSessionReturn(c) ==
  /\ c \in closing
  /\ sessions' = Unregister(sessions, c.sessionId)
  /\ closing' = closing \ {c}
  /\ managerCalls' = Returned(managerCalls, c.call, "true")
  /\ UNCHANGED <<sessionObjects, creating, executing, dispatched, managerConfig, closingAll, listeners>>

\* PersistentSession.executeCommand(command) as the manager's caller sees it:
\* the session takes the command, or throws 'Session not initialized or
\* inactive'
SessionTakes(s) == s.isActive /\ s.shell # "none"

\* executeInSession(sessionId, command): the policy, the lookup, then
\* session.executeCommand(command)
executeInSession(id, command) ==
  /\ Len(managerCalls) < MaxManagerCalls
  /\ command # <<>>
  /\ LET call == ManagerCall("executeInSession", id, command,
                             id \in DOMAIN sessions)
         result == IF ~PolicyAllows(command) THEN "PolicyDenied"
                   ELSE IF id \notin DOMAIN sessions THEN "NotFound"
                   ELSE IF SessionTakes(sessionObjects[sessions[id]])
                   THEN "accepted"
                   ELSE "SessionInactive"
     IN /\ managerCalls' = Append(managerCalls, [call EXCEPT !.result = result])
        /\ dispatched' =
             IF result = "accepted"
             THEN dispatched \cup {[via |-> "session", command |-> command]}
             ELSE dispatched
        /\ sessionObjects' =
             IF result = "accepted"       \* resetSessionTimeout()
             THEN [sessionObjects EXCEPT ![sessions[id]].timer = TRUE]
             ELSE sessionObjects
  /\ UNCHANGED <<sessions, creating, closing, executing, managerConfig, closingAll, listeners>>

\* getSessionOutput(sessionId): the lookup, then session.getBufferedOutput()
getSessionOutput(id) ==
  /\ Len(managerCalls) < MaxManagerCalls
  /\ LET call == ManagerCall("getSessionOutput", id, <<>>,
                             id \in DOMAIN sessions)
         result == IF id \notin DOMAIN sessions THEN "NotFound" ELSE "output"
     IN managerCalls' = Append(managerCalls, [call EXCEPT !.result = result])
  /\ UNCHANGED <<sessions, sessionObjects, creating, closing, executing,
                 dispatched, managerConfig, closingAll, listeners>>

\* executeCommand(host, username, privateKeyPath, command) of the manager up
\* to its await: the policy, then the pool is asked for a transport
managerExecuteCommand(command) ==
  /\ Len(managerCalls) < MaxManagerCalls
  /\ command # <<>>
  /\ LET call == ManagerCall("executeCommand", "", command, FALSE)
     IN IF PolicyAllows(command)
        THEN /\ managerCalls' = Append(managerCalls, [call EXCEPT !.pool = TRUE])
             /\ executing' = executing \cup
                  {[call |-> ThisCall, command |-> command]}
        ELSE /\ managerCalls' =
                  Append(managerCalls, [call EXCEPT !.result = "PolicyDenied"])
             /\ UNCHANGED executing
  /\ UNCHANGED <<sessions, sessionObjects, creating, closing, dispatched,
                 managerConfig, closingAll, listeners>>

\* executeCommand of the manager: pool.getConnection resolved, and the command
\* goes to client.exec
ExecTransportAcquired(e) ==
  /\ e \in executing
  /\ NoMicrotask
  /\ executing' = executing \ {e}
  /\ dispatched' = dispatched \cup {[via |-> "exec", command |-> e.command]}
  /\ managerCalls' = Returned(managerCalls, e.call, "executed")
  /\ UNCHANGED <<sessions, sessionObjects, creating, closing, managerConfig, closingAll, listeners>>

\* executeCommand of the manager: pool.getConnection rejected
ExecTransportFailed(e) ==
  /\ e \in executing
  /\ NoMicrotask
  /\ executing' = executing \ {e}
  /\ managerCalls' = Returned(managerCalls, e.call, "ConnectionError")
  /\ UNCHANGED <<sessions, sessionObjects, creating, closing, dispatched,
                 managerConfig, closingAll, listeners>>

\* the 'close' event of the shell channel of session object o: isActive =
\* false, emit('closed'), cleanup(); the manager has no listener on the session
SessionChannelClose(o) ==
  /\ o \in 1..Len(sessionObjects)
  /\ sessionObjects[o].shell \in {"open", "ended"}
  /\ NoMicrotask
  /\ sessionObjects' =
       [sessionObjects EXCEPT ![o].isActive = FALSE,
                              ![o].timer = FALSE,
                              ![o].shell = "closed",
                              ![o].emitted = @ \cup {"closed"}]
  /\ UNCHANGED <<sessions, creating, closing, executing, managerCalls,
                 dispatched, managerConfig, closingAll, listeners>>

\* the inactivity timer of session object o fires: emit('timeout'), close()
SessionInactivityTimeout(o) ==
  /\ o \in 1..Len(sessionObjects)
  /\ sessionObjects[o].timer
  /\ NoMicrotask
  /\ sessionObjects' =
       [sessionObjects EXCEPT
          ![o] = [ClosedSession(@) EXCEPT !.emitted = @ \cup {"timeout"}]]
  /\ UNCHANGED <<sessions, creating, closing, executing, managerCalls,
                 dispatched, managerConfig, closingAll, listeners>>

\* the 'error' event of the shell channel of session object o: emit('error')
SessionShellError(o) ==
  /\ o \in 1..Len(sessionObjects)
  /\ sessionObjects[o].shell \in {"open", "ended"}
  /\ NoMicrotask
  /\ sessionObjects' = [sessionObjects EXCEPT ![o].emitted = @ \cup {"error"}]
  /\ UNCHANGED <<sessions, creating, closing, executing, managerCalls,
                 dispatched, managerConfig, closingAll, listeners>>

\* ------------------------------------------------------------------------
\* The session specification: one interactive bash session, its callers, its
\* timers and its shell channel
\* ------------------------------------------------------------------------
ExitCodeTexts == {<<"0">>, <<"1", "2">>}

QueuedIds == {commandQueue[i].id : i \in 1..Len(commandQueue)}

\* the ids of the requests written to the channel so far
Dispatched == {id \in CommandIds : id < nextId /\ id \notin QueuedIds}

\* what the shell may send: plain output, and the markers of the commands it
\* was given
ShellChunks ==
  {<<"hi", "\n">>}
    \cup {StartDelimiter(id) \o <<"\n">> : id \in Dispatched}
    \cup {EndDelimiter(id) \o <<":">> \o code \o <<"\n">> :
            id \in Dispatched, code \in ExitCodeTexts}

Init ==
  /\ SessionInit({"interactive"}, SessionModes, {"bash"})
  /\ PoolInit({MAX_CONNECTIONS_PER_HOST})
  /\ ManagerInit({DEFAULT_MAX_SESSIONS}, {NoPolicy})

Next ==
  \/ Initialize /\ UNCHANGED <<poolVars, managerVars>>
  \/ \E command \in Commands, rawArg \in RawArgs :
       executeCommand(command, DEFAULT_COMMAND, rawArg) /\ UNCHANGED <<poolVars, managerVars>>
  \/ \E data \in ShellChunks :
       nChunks < MaxChunks /\ handleShellOutput(data) /\ UNCHANGED <<poolVars, managerVars>>
  \/ \E id \in CommandIds : CommandTimer(id) /\ UNCHANGED <<poolVars, managerVars>>
  \/ KeepAlive /\ UNCHANGED <<poolVars, managerVars>>
  \/ close /\ UNCHANGED <<poolVars, managerVars>>
  \/ SessionTimeout /\ UNCHANGED <<poolVars, managerVars>>
  \/ ChannelClose /\ UNCHANGED <<poolVars, managerVars>>

Spec == Init /\ [][Next]_vars

\* the same session with callers that call initialize() again while the first
\* call waits for its shell
InitializeNext ==
  \/ Next
  \/ initialize /\ UNCHANGED <<poolVars, managerVars>>

InitializeSpec == Init /\ [][InitializeNext]_vars

\* ------------------------------------------------------------------------
\* The filter specification: a session whose callers install and remove a
\* command filter and send commands it rejects
\* ------------------------------------------------------------------------
FilterCommands == {<<"ls">>, <<"rm", " ", "x">>}

\* the filters the callers install: none, and one that rejects rm x
Filters == {{}, {<<"rm", " ", "x">>}}

FilterInit ==
  /\ SessionInit({"interactive"}, {"normal"}, {"bash"})
  /\ PoolInit({MAX_CONNECTIONS_PER_HOST})
  /\ ManagerInit({DEFAULT_MAX_SESSIONS}, {NoPolicy})

FilterNext ==
  \/ Initialize /\ UNCHANGED <<poolVars, managerVars>>
  \/ \E data \in ShellChunks :
       /\ nChunks < MaxChunks
       /\ handleShellOutput(data)
       /\ UNCHANGED <<poolVars, managerVars>>
  \/ \E id \in CommandIds : CommandTimer(id) /\ UNCHANGED <<poolVars, managerVars>>
  \/ KeepAlive /\ UNCHANGED <<poolVars, managerVars>>
  \/ close /\ UNCHANGED <<poolVars, managerVars>>
  \/ SessionTimeout /\ UNCHANGED <<poolVars, managerVars>>
  \/ ChannelClose /\ UNCHANGED <<poolVars, managerVars>>
  \/ \E rejects \in Filters :
       setCommandFilter(rejects) /\ UNCHANGED <<poolVars, managerVars>>
  \/ \E command \in FilterCommands :
       /\ executeCommand(command, DEFAULT_COMMAND, "undefined")
       /\ UNCHANGED <<poolVars, managerVars>>
  \/ \E command \in FilterCommands :
       /\ executeCommandDenied(command, DEFAULT_COMMAND, "undefined")
       /\ UNCHANGED <<poolVars, managerVars>>

FilterSpec == FilterInit /\ [][FilterNext]_vars

\* ------------------------------------------------------------------------
\* The snapshot specification: an interactive session, and a caller that
\* takes snapshots with getSessionInfo and writes to what it got
\* ------------------------------------------------------------------------
InfoNext ==
  \/ Initialize /\ UNCHANGED <<poolVars, managerVars>>
  \/ \E command \in Commands :
       /\ executeCommand(command, DEFAULT_COMMAND, "undefined")
       /\ UNCHANGED <<poolVars, managerVars>>
  \/ \E id \in CommandIds : CommandTimer(id) /\ UNCHANGED <<poolVars, managerVars>>
  \/ close /\ UNCHANGED <<poolVars, managerVars>>
  \/ ChannelClose /\ UNCHANGED <<poolVars, managerVars>>
  \/ getSessionInfo /\ UNCHANGED <<poolVars, managerVars>>
  \/ PushOnReturnedHistory /\ UNCHANGED <<poolVars, managerVars>>
  \/ ToggleReturnedIsActive /\ UNCHANGED <<poolVars, managerVars>>
  \/ SetOnReturnedEnvironmentVars /\ UNCHANGED <<poolVars, managerVars>>

InfoSpec == FilterInit /\ [][InfoNext]_vars

\* ------------------------------------------------------------------------
\* The output specification: a session of either type that receives numbered
\* chunks, and a caller of getBufferedOutput
\* ------------------------------------------------------------------------
OutputInit ==
  /\ SessionInit(SessionTypes, {"normal"}, {"bash"})
  /\ PoolInit({MAX_CONNECTIONS_PER_HOST})
  /\ ManagerInit({DEFAULT_MAX_SESSIONS}, {NoPolicy})

OutputNext ==
  \/ Initialize /\ UNCHANGED <<poolVars, managerVars>>
  \/ /\ nChunks < MaxOutChunks
     /\ handleShellOutput(NumberToString(nChunks + 1))
     /\ UNCHANGED <<poolVars, managerVars>>
  \/ \E lines \in LinesArgs, clear \in BOOLEAN :
       getBufferedOutput(lines, clear) /\ UNCHANGED <<poolVars, managerVars>>

OutputSpec == OutputInit /\ [][OutputNext]_vars

\* ------------------------------------------------------------------------
\* The timer specification: an interactive session with a clock, and the
\* inactivity timer running when it is due
\* ------------------------------------------------------------------------
TimerNext ==
  \/ Initialize /\ UNCHANGED <<poolVars, managerVars>>
  \/ Tick /\ UNCHANGED <<poolVars, managerVars>>
  \/ \E command \in Commands :
       /\ executeCommand(command, DEFAULT_COMMAND, "undefined")
       /\ UNCHANGED <<poolVars, managerVars>>
  \/ \E data \in ShellChunks :
       /\ nChunks < MaxChunks
       /\ handleShellOutput(data)
       /\ UNCHANGED <<poolVars, managerVars>>
  \/ \E id \in CommandIds : CommandTimer(id) /\ UNCHANGED <<poolVars, managerVars>>
  \/ KeepAlive /\ UNCHANGED <<poolVars, managerVars>>
  \/ close /\ UNCHANGED <<poolVars, managerVars>>
  \/ InactivityTimerFires /\ UNCHANGED <<poolVars, managerVars>>
  \/ ChannelClose /\ UNCHANGED <<poolVars, managerVars>>

TimerSpec == FilterInit /\ [][TimerNext]_vars

\* ------------------------------------------------------------------------
\* The validation specification: an interactive session with a clock, and
\* callers whose executeCommand calls are accepted or rejected
\* ------------------------------------------------------------------------
\* the command arguments of the callers: the empty string and a command
CommandArgs == {<<>>, <<"ls">>}

\* the timeout arguments of the callers
TimeoutArgs == {0 - 1, 0, DEFAULT_COMMAND}

ValidationNext ==
  \/ Initialize /\ UNCHANGED <<poolVars, managerVars>>
  \/ Tick /\ UNCHANGED <<poolVars, managerVars>>
  \/ \E command \in CommandArgs, timeout \in TimeoutArgs :
       /\ executeCommand(command, timeout, "undefined")
       /\ UNCHANGED <<poolVars, managerVars>>
  \/ \E command \in CommandArgs, timeout \in TimeoutArgs :
       /\ executeCommandRejected(command, timeout, "undefined")
       /\ UNCHANGED <<poolVars, managerVars>>
  \/ \E id \in CommandIds : CommandTimer(id) /\ UNCHANGED <<poolVars, managerVars>>
  \/ close /\ UNCHANGED <<poolVars, managerVars>>
  \/ InactivityTimerFires /\ UNCHANGED <<poolVars, managerVars>>
  \/ ChannelClose /\ UNCHANGED <<poolVars, managerVars>>

ValidationSpec == FilterInit /\ [][ValidationNext]_vars

\* ------------------------------------------------------------------------
\* The framing specification: an interactive session in normal mode whose
\* shell echoes the command line it is given and whose output arrives cut
\* into chunks at any token
\* ------------------------------------------------------------------------
\* the request the session made with the given id
RequestOf(id) ==
  [id |-> id, command |-> <<"ls">>, timeout |-> DEFAULT_COMMAND, raw |-> FALSE]

\* the terminal's echo of the command line written for request id
Echo(id) == CommandText(RequestOf(id))

\* what the shell may send for the commands it was given: the echo of the
\* command line, the start marker and a line of output, the end marker with
\* exit code 12, the end marker with the first digit of exit code 12, and the
\* rest of that exit code
FrameChunks ==
  {<<"2", "\n">>}
    \cup {Echo(id) : id \in Dispatched}
    \cup {StartDelimiter(id) \o <<"\n", "out", "\n">> : id \in Dispatched}
    \cup {EndDelimiter(id) \o <<":", "1", "2", "\n">> : id \in Dispatched}
    \cup {EndDelimiter(id) \o <<":", "1">> : id \in Dispatched}

FramingInit ==
  /\ SessionInit({"interactive"}, {"normal"}, ShellTypes)
  /\ PoolInit({MAX_CONNECTIONS_PER_HOST})
  /\ ManagerInit({DEFAULT_MAX_SESSIONS}, {NoPolicy})

FramingNext ==
  \/ Initialize /\ UNCHANGED <<poolVars, managerVars>>
  \/ \E command \in Commands :
       /\ executeCommand(command, DEFAULT_COMMAND, "undefined")
       /\ UNCHANGED <<poolVars, managerVars>>
  \/ \E data \in FrameChunks :
       /\ nChunks < MaxFrameChunks
       /\ handleShellOutput(data)
       /\ UNCHANGED <<poolVars, managerVars>>
  \/ \E id \in CommandIds : CommandTimer(id) /\ UNCHANGED <<poolVars, managerVars>>

FramingSpec == FramingInit /\ [][FramingNext]_vars

\* ------------------------------------------------------------------------
\* The background specification: one background bash session, with the
\* callers, timers and shell channel of the session specification
\* ------------------------------------------------------------------------
BackgroundInit ==
  /\ SessionInit({"background"}, {"normal"}, {"bash"})
  /\ PoolInit({MAX_CONNECTIONS_PER_HOST})
  /\ ManagerInit({DEFAULT_MAX_SESSIONS}, {NoPolicy})

BackgroundSpec == BackgroundInit /\ [][Next]_vars

\* ------------------------------------------------------------------------
\* The buffer specification: a background session that receives chunk after
\* chunk, the n-th chunk being the text of n
\* ------------------------------------------------------------------------
\* the state of the background session after initialize() and its first n
\* chunks, none of them dropped (n <= MAX_SIZE)
AfterChunks(n) ==
  /\ sessType = "background"
  /\ sessMode = "normal"
  /\ shellType = "bash"
  /\ isInitialized = TRUE
  /\ isActive = TRUE
  /\ shell = "open"
  /\ commandQueue = <<>>
  /\ currentCommand = NullCommand
  /\ outputData = <<>>
  /\ outputBuffer = [i \in 1..n |-> NumberToString(i)]
  /\ commandHistory = <<>>
  /\ keepAliveInterval = TRUE
  /\ sessionTimeout = TRUE
  /\ cmdTimers = {}
  /\ nextId = 1
  /\ delivered = [i \in CommandIds |-> NoOutcome]
  /\ sinkCalls = [i \in CommandIds |-> 0]
  /\ written = NoWrite
  /\ nChunks = n
  /\ events = <<>>
  /\ commandFilter = {}
  /\ denied = {}
  /\ returned = [i \in CommandIds |-> NoOutcome]
  /\ lastActivity = 0
  /\ timerDeadline = sessionTimeoutMs
  /\ closeRan = FALSE
  /\ now = 0
  /\ environmentVars = {}
  /\ snapshot = NoSnapshot
  /\ bufferResult = NoResult
  /\ thrown = NoError
  /\ shellRequests = 0

\* the session as constructed, or as it is one chunk before the buffer is full
\* (a state the run from construction reaches too)
BufInit ==
  /\ \/ SessionInit({"background"}, {"normal"}, {"bash"})
     \/ AfterChunks(MAX_SIZE - 1)
  /\ PoolInit({MAX_CONNECTIONS_PER_HOST})
  /\ ManagerInit({DEFAULT_MAX_SESSIONS}, {NoPolicy})

BufNext ==
  \/ Initialize /\ UNCHANGED <<poolVars, managerVars>>
  \/ /\ nChunks < MaxBufChunks
     /\ handleShellOutput(NumberToString(nChunks + 1))
     /\ UNCHANGED <<poolVars, managerVars>>

BufSpec == BufInit /\ [][BufNext]_vars

\* ------------------------------------------------------------------------
\* The pool specification: overlapping getConnection calls and the events of
\* the clients they create
\* ------------------------------------------------------------------------
\* the caps the pool is constructed with: the smallest one and the default
PoolCaps == {1, MAX_CONNECTIONS_PER_HOST}

PoolSpecInit ==
  /\ SessionInit({"interactive"}, {"normal"}, {"bash"})
  /\ PoolInit(PoolCaps)
  /\ ManagerInit({DEFAULT_MAX_SESSIONS}, {NoPolicy})

PoolNext ==
  \/ \E t \in Targets :
       getConnection(t.host, t.username, t.port) /\ UNCHANGED <<sessionVars, managerVars>>
  \/ \E p \in pending : KeyRead(p) /\ UNCHANGED <<sessionVars, managerVars>>
  \/ \E p \in pending : KeyReadFailure(p) /\ UNCHANGED <<sessionVars, managerVars>>
  \/ \E p \in pending : ClientReady(p) /\ UNCHANGED <<sessionVars, managerVars>>
  \/ \E p \in pending : ConnectFailure(p) /\ UNCHANGED <<sessionVars, managerVars>>
  \/ \E c \in 1..Len(clients) : ClientClose(c) /\ UNCHANGED <<sessionVars, managerVars>>

PoolSpec == PoolSpecInit /\ [][PoolNext]_vars

\* ------------------------------------------------------------------------
\* The drain specification: a pool whose callers acquire transports and call
\* disconnectAll, with clients that may or may not emit close. Timers fire
\* and the continuation of an await runs: the event loop is fair to both
\* ------------------------------------------------------------------------
\* the targets the callers of the pool ask for: one host on two ports
DrainTargets == {t \in Targets : t.username = <<"u">> /\ t.host = <<"h">>}

DrainInit ==
  /\ SessionInit({"interactive"}, {"normal"}, {"bash"})
  /\ PoolInit({MAX_CONNECTIONS_PER_HOST})
  /\ ManagerInit({DEFAULT_MAX_SESSIONS}, {NoPolicy})

\* the FORCE_CLOSE timer of some wait of disconnectAll fires
SomeForceCloseTimer ==
  \E c \in 1..Len(clients) :
    NoMicrotask /\ ForceCloseTimer(c) /\ UNCHANGED <<sessionVars, managerVars>>

\* disconnectAll resumes after its await
DisconnectAllResumes == DisconnectAllReturn /\ UNCHANGED <<sessionVars, managerVars>>

DrainNext ==
  \/ \E t \in DrainTargets :
       /\ getConnection(t.host, t.username, t.port)
       /\ UNCHANGED <<sessionVars, managerVars>>
  \/ \E p \in pending :
       NoMicrotask /\ KeyRead(p) /\ UNCHANGED <<sessionVars, managerVars>>
  \/ \E p \in pending :
       NoMicrotask /\ ClientReady(p) /\ UNCHANGED <<sessionVars, managerVars>>
  \/ \E c \in 1..Len(clients) :
       NoMicrotask /\ ClientClose(c) /\ UNCHANGED <<sessionVars, managerVars>>
  \/ disconnectAll /\ UNCHANGED <<sessionVars, managerVars>>
  \/ SomeForceCloseTimer
  \/ DisconnectAllResumes

DrainSpec ==
  /\ DrainInit
  /\ [][DrainNext]_vars
  /\ WF_vars(SomeForceCloseTimer)
  /\ WF_vars(DisconnectAllResumes)

\* ------------------------------------------------------------------------
\* The manager specification: overlapping calls of the manager's API, and the
\* events of the sessions it constructed
\* ------------------------------------------------------------------------
\* the session limits the manager is configured with: the smallest one and
\* the default
SessionLimits == {1, DEFAULT_MAX_SESSIONS}

ManagerSpecInit ==
  /\ SessionInit({"interactive"}, {"normal"}, {"bash"})
  /\ PoolInit({MAX_CONNECTIONS_PER_HOST})
  /\ ManagerInit(SessionLimits, {NoPolicy})

ManagerNext ==
  \/ \E id \in SessionIds : createSession(id) /\ UNCHANGED <<sessionVars, poolVars>>
  \/ \E c \in creating : TransportAcquired(c) /\ UNCHANGED <<sessionVars, poolVars>>
  \/ \E c \in creating : TransportFailed(c) /\ UNCHANGED <<sessionVars, poolVars>>
  \/ \E c \in creating : ShellOpened(c) /\ UNCHANGED <<sessionVars, poolVars>>
  \/ \E c \in creating : ShellFailed(c) /\ UNCHANGED <<sessionVars, poolVars>>
  \/ \E c \in creating :
       StartupDelayElapsed(c) /\ UNCHANGED <<sessionVars, poolVars>>
  \/ \E id \in SessionIds : closeSession(id) /\ UNCHANGED <<sessionVars, poolVars>>
  \/ \E c \in closing : CloseSessionReturn(c) /\ UNCHANGED <<sessionVars, poolVars>>
  \/ \E id \in SessionIds, command \in ManagerCommands :
       executeInSession(id, command) /\ UNCHANGED <<sessionVars, poolVars>>
  \/ \E id \in SessionIds :
       getSessionOutput(id) /\ UNCHANGED <<sessionVars, poolVars>>
  \/ \E command \in ManagerCommands :
       managerExecuteCommand(command) /\ UNCHANGED <<sessionVars, poolVars>>
  \/ \E e \in executing :
       ExecTransportAcquired(e) /\ UNCHANGED <<sessionVars, poolVars>>
  \/ \E e \in executing :
       ExecTransportFailed(e) /\ UNCHANGED <<sessionVars, poolVars>>
  \/ \E o \in 1..Len(sessionObjects) :
       SessionChannelClose(o) /\ UNCHANGED <<sessionVars, poolVars>>
  \/ \E o \in 1..Len(sessionObjects) :
       SessionInactivityTimeout(o) /\ UNCHANGED <<sessionVars, poolVars>>
  \/ \E o \in 1..Len(sessionObjects) :
       SessionShellError(o) /\ UNCHANGED <<sessionVars, poolVars>>

ManagerSpec == ManagerSpecInit /\ [][ManagerNext]_vars

\* ------------------------------------------------------------------------
\* The tear-down specification: a manager whose callers create sessions and
\* call closeAll, and a pool that holds the transports the manager's calls
\* made it open
\* ------------------------------------------------------------------------
\* the targets of the transports
TeardownTargets == {t \in Targets : t.username = <<"u">> /\ t.host = <<"h">>}

\* createSession(id, target) up to its first await, pool.getConnection up to
\* its own first await included when the call gets that far
createSessionOnPool(id, t) ==
  /\ createSession(id)
  /\ IF creating' # creating
     THEN getConnection(t.host, t.username, t.port)
     ELSE UNCHANGED poolVars

\* the getConnection call that the createSession call c made: the pool's
\* calls are the manager's calls that got as far as the pool, in their order
PoolCallOf(c) == Cardinality({n \in 1..c.call : managerCalls[n].pool})

\* createSession: its pool.getConnection call has returned a transport
TransportAcquiredFromPool(c) ==
  /\ \A p \in pending : p.call # PoolCallOf(c)
  /\ TransportAcquired(c)

TeardownNext ==
  \/ \E id \in SessionIds, t \in TeardownTargets :
       createSessionOnPool(id, t) /\ UNCHANGED sessionVars
  \/ \E p \in pending :
       NoMicrotask /\ KeyRead(p) /\ UNCHANGED <<sessionVars, managerVars>>
  \/ \E p \in pending :
       NoMicrotask /\ ClientReady(p) /\ UNCHANGED <<sessionVars, managerVars>>
  \/ \E c \in 1..Len(clients) :
       NoMicrotask /\ ClientClose(c) /\ UNCHANGED <<sessionVars, managerVars>>
  \/ \E c \in 1..Len(clients) :
       NoMicrotask /\ ForceCloseTimer(c) /\ UNCHANGED <<sessionVars, managerVars>>
  \/ \E c \in creating :
       TransportAcquiredFromPool(c) /\ UNCHANGED <<sessionVars, poolVars>>
  \/ \E c \in creating : ShellOpened(c) /\ UNCHANGED <<sessionVars, poolVars>>
  \/ \E c \in creating :
       StartupDelayElapsed(c) /\ UNCHANGED <<sessionVars, poolVars>>
  \/ closeAll /\ UNCHANGED <<sessionVars, poolVars>>
  \/ CloseAllSessionsClosed /\ UNCHANGED sessionVars
  \/ CloseAllReturn /\ UNCHANGED sessionVars

TeardownSpec == ManagerSpecInit /\ [][TeardownNext]_vars

\* the policies the manager is configured with: none, a block list, an allow
\* list, and both with a pattern in common
Policies ==
  {NoPolicy,
   [allowedCommands |-> {}, blockedCommands |-> {<<"rm">>}],
   [allowedCommands |-> {<<"ls">>}, blockedCommands |-> {}],
   [allowedCommands |-> {<<"ls">>}, blockedCommands |-> {<<"ls">>, <<"rm">>}]}

PolicySpecInit ==
  /\ SessionInit({"interactive"}, {"normal"}, {"bash"})
  /\ PoolInit({MAX_CONNECTIONS_PER_HOST})
  /\ ManagerInit({DEFAULT_MAX_SESSIONS}, Policies)

PolicySpec == PolicySpecInit /\ [][ManagerNext]_vars

\* ------------------------------------------------------------------------
\* The registry specification: the SSHConnectionManager of ssh.ts, which puts
\* handlers on the sessions it registers and waits in closeSession for the
\* 'closed' event or for the FORCE_CLOSE timer. Its createSession checks the
\* id and asks for a transport as above, without a limit on the sessions
\* ------------------------------------------------------------------------
\* a handler the manager has put on session object o: call 0 for the three
\* handlers of createSession, the closeSession call for its once('closed')
Listener(o, id, n) == [object |-> o, sessionId |-> id, call |-> n]

\* the handlers on session object o
ListenersOn(o) == {l \in listeners : l.object = o}

\* this.sessions.delete(sessionId), by every handler of ls
UnregisterAll(registry, ls) ==
  [k \in (DOMAIN registry) \ {l.sessionId : l \in ls} |-> registry[k]]

\* createSession after await session.initialize(): sessions.set, then
\* session.on('closed'), session.on('error'), session.on('timeout'), and the
\* session is returned
SessionRegistered(c) ==
  /\ c \in creating
  /\ c.stage = "settle"
  /\ sessions' = Register(sessions, c.sessionId, c.object)
  /\ listeners' = listeners \cup {Listener(c.object, c.sessionId, 0)}
  /\ creating' = creating \ {c}
  /\ managerCalls' = Returned(managerCalls, c.call, "created")
  /\ UNCHANGED <<sessionObjects, closing, executing, dispatched, managerConfig,
                 closingAll>>

\* closeSession(sessionId) of ssh.ts: false when the id is not registered,
\* else the FORCE_CLOSE timer is armed, session.once('closed') is installed
\* and session.close() is called; the promise stays pending
closeSessionAwaitingClosed(id) ==
  /\ Len(managerCalls) < MaxManagerCalls
  /\ id # ""
  /\ LET call == ManagerCall("closeSession", id, <<>>, id \in DOMAIN sessions)
     IN IF id \notin DOMAIN sessions
        THEN /\ managerCalls' =
                  Append(managerCalls, [call EXCEPT !.result = "false"])
             /\ UNCHANGED <<sessionObjects, listeners>>
        ELSE /\ managerCalls' = Append(managerCalls, call)
             /\ sessionObjects' =
                  [sessionObjects EXCEPT
                     ![sessions[id]] = ClosedSession(sessionObjects[sessions[id]])]
             /\ listeners' =
                  listeners \cup {Listener(sessions[id], id, ThisCall)}
  /\ UNCHANGED <<sessions, creating, closing, executing, dispatched,
                 managerConfig, closingAll>>

\* the closeSession calls whose FORCE_CLOSE timer is armed
ForceCloseArmed ==
  {n \in DOMAIN managerCalls :
     /\ managerCalls[n].op = "closeSession"
     /\ managerCalls[n].result = "pending"}

\* the FORCE_CLOSE timer of closeSession call n fires: sessions.delete, and
\* the promise resolves true; the once('closed') handler stays on the session
ForceCloseSession(n) ==
  /\ n \in ForceCloseArmed
  /\ sessions' = Unregister(sessions, managerCalls[n].sessionId)
  /\ managerCalls' = Returned(managerCalls, n, "true")
  /\ UNCHANGED <<sessionObjects, creating, closing, executing, dispatched,
                 managerConfig, closingAll, listeners>>

\* the 'close' event of the shell channel of session object o: isActive =
\* false, emit('closed'), cleanup(). Every 'closed' handler on the session
\* deletes its id; those of closeSession clear their timer, resolve true and
\* are taken off
SessionClosedEvent(o) ==
  /\ o \in 1..Len(sessionObjects)
  /\ sessionObjects[o].shell \in {"open", "ended"}
  /\ sessionObjects' =
       [sessionObjects EXCEPT ![o].isActive = FALSE,
                              ![o].timer = FALSE,
                              ![o].shell = "closed",
                              ![o].emitted = @ \cup {"closed"}]
  /\ sessions' = UnregisterAll(sessions, ListenersOn(o))
  /\ listeners' = listeners \ {l \in ListenersOn(o) : l.call # 0}
  /\ managerCalls' =
       [n \in DOMAIN managerCalls |->
          IF n \in ForceCloseArmed /\ \E l \in ListenersOn(o) : l.call = n
          THEN [managerCalls[n] EXCEPT !.result = "true"]
          ELSE managerCalls[n]]
  /\ UNCHANGED <<creating, closing, executing, dispatched, managerConfig,
                 closingAll>>

\* the 'error' event of the shell channel of a registered session object o:
\* emit('error'), and the 'error' handler of createSession deletes its id
SessionErrorEvent(o) ==
  /\ o \in 1..Len(sessionObjects)
  /\ sessionObjects[o].shell \in {"open", "ended"}
  /\ \E l \in ListenersOn(o) : l.call = 0
  /\ sessionObjects' = [sessionObjects EXCEPT ![o].emitted = @ \cup {"error"}]
  /\ sessions' = UnregisterAll(sessions, {l \in ListenersOn(o) : l.call = 0})
  /\ UNCHANGED <<creating, closing, executing, managerCalls, dispatched,
                 managerConfig, closingAll, listeners>>

\* the inactivity timer of session object o fires: emit('timeout'), and the
\* 'timeout' handler of createSession deletes its id; then close()
SessionTimeoutEvent(o) ==
  /\ o \in 1..Len(sessionObjects)
  /\ sessionObjects[o].timer
  /\ sessionObjects' =
       [sessionObjects EXCEPT
          ![o] = [ClosedSession(@) EXCEPT !.emitted = @ \cup {"timeout"}]]
  /\ sessions' = UnregisterAll(sessions, {l \in ListenersOn(o) : l.call = 0})
  /\ UNCHANGED <<creating, closing, executing, managerCalls, dispatched,
                 managerConfig, closingAll, listeners>>

RegistryInit ==
  /\ SessionInit({"interactive"}, {"normal"}, {"bash"})
  /\ PoolInit({MAX_CONNECTIONS_PER_HOST})
  /\ ManagerInit({DEFAULT_MAX_SESSIONS}, {NoPolicy})

RegistryNext ==
  \/ \E id \in SessionIds : createSession(id) /\ UNCHANGED <<sessionVars, poolVars>>
  \/ \E c \in creating : TransportAcquired(c) /\ UNCHANGED <<sessionVars, poolVars>>
  \/ \E c \in creating : TransportFailed(c) /\ UNCHANGED <<sessionVars, poolVars>>
  \/ \E c \in creating : ShellOpened(c) /\ UNCHANGED <<sessionVars, poolVars>>
  \/ \E c \in creating : ShellFailed(c) /\ UNCHANGED <<sessionVars, poolVars>>
  \/ \E c \in creating : SessionRegistered(c) /\ UNCHANGED <<sessionVars, poolVars>>
  \/ \E id \in SessionIds :
       closeSessionAwaitingClosed(id) /\ UNCHANGED <<sessionVars, poolVars>>
  \/ \E n \in DOMAIN managerCalls :
       ForceCloseSession(n) /\ UNCHANGED <<sessionVars, poolVars>>
  \/ \E o \in 1..Len(sessionObjects) :
       SessionClosedEvent(o) /\ UNCHANGED <<sessionVars, poolVars>>
  \/ \E o \in 1..Len(sessionObjects) :
       SessionErrorEvent(o) /\ UNCHANGED <<sessionVars, poolVars>>
  \/ \E o \in 1..Len(sessionObjects) :
       SessionTimeoutEvent(o) /\ UNCHANGED <<sessionVars, poolVars>>

\* a timer that stays armed fires: the inactivity timer of every session
InactivityTimersFire ==
  \A o \in 1..MaxManagerCalls :
    WF_vars(SessionTimeoutEvent(o) /\ UNCHANGED <<sessionVars, poolVars>>)

RegistrySpec == RegistryInit /\ [][RegistryNext]_vars /\ InactivityTimersFire

\* ------------------------------------------------------------------------
\* Properties of the session
\* ------------------------------------------------------------------------
\* request id gets its outcome in this step
Delivers(id) == delivered[id] = NoOutcome /\ delivered'[id] # NoOutcome

\* a request is written to the channel in this step
Dispatches == currentCommand' # currentCommand /\ currentCommand' # NullCommand

\* the timer callback of request id runs in this step
TimerRuns(id) == id \in cmdTimers /\ id \notin cmdTimers'

\* C1: when a request is written to the shell channel, every request submitted
\* before it has had its outcome delivered, and every request still queued was
\* submitted after it: requests are dispatched in submission order, one at a
\* time
C1_OutcomeBeforeNextDispatch ==
  [][Dispatches =>
       /\ written' = [kind |-> "command", id |-> currentCommand'.id,
                      text |-> CommandText(currentCommand')]
       /\ \A a \in CommandIds :
            a < currentCommand'.id => delivered'[a] # NoOutcome
       /\ \A b \in CommandIds :
            (\E i \in 1..Len(commandQueue') : commandQueue'[i].id = b)
              => b > currentCommand'.id]_vars

\* C1 witness: the second request is in flight after the first got its outcome
C1_Witness ==
  /\ currentCommand.id = 2
  /\ written.id = 2
  /\ delivered[1] # NoOutcome

\* C2: the outcome sink (resolve or reject) of a request is called at most once
C2_SinkCalledAtMostOnce == \A id \in CommandIds : sinkCalls[id] <= 1

\* C2 witness: a request resolved by framing whose timer has run since
C2_Witness ==
  /\ delivered[1].kind = "success"
  /\ 1 \notin cmdTimers
  /\ sinkCalls[1] = 1

\* C3: every accepted call gets an outcome; in particular, once the session
\* has ended (close(), channel close or inactivity timeout), no accepted
\* request is left without one
C3_EveryAcceptedCallGetsOutcome ==
  (isInitialized /\ ~isActive) =>
    \A id \in CommandIds : id < nextId => delivered[id] # NoOutcome

\* C4: when close() runs on an open session, every request that is in the
\* queue is failed with SessionInactive
C4_CloseFailsQueuedRequests ==
  [][(shell = "open" /\ shell' = "ended") =>
       \A id \in QueuedIds : delivered'[id].kind = "SessionInactive"]_vars

\* C6: the output buffer of an interactive session is empty in every state
C6_InteractiveBufferEmpty == sessType = "interactive" => outputBuffer = <<>>

\* C6 witness: an interactive session that has handled inbound chunks
C6_Witness ==
  /\ sessType = "interactive"
  /\ nChunks = MaxChunks
  /\ outputData # <<>>

\* the accumulator holds the start marker of request id and an end marker of it
\* with an exit code
FrameComplete(acc, id) ==
  /\ IndexOf(acc, StartDelimiter(id)) # -1
  /\ \E code \in ExitCodeTexts :
       IndexOf(acc, EndDelimiter(id) \o <<":">> \o code) # -1

\* an end marker of request id with an exit code is in the accumulator
EndMarkerArrived(acc, id) ==
  \E code \in ExitCodeTexts :
    IndexOf(acc, EndDelimiter(id) \o <<":">> \o code) # -1

\* C7 as stated: when the timer of an in-flight normal-mode request runs, no
\* end marker of the request has arrived and the outcome is CommandTimeout (had
\* the end marker arrived in time, the outcome would have been a success)
C7_TimeoutIffNoEndMarker ==
  [][\A id \in CommandIds :
       (TimerRuns(id) /\ currentCommand.id = id /\ ~currentCommand.raw) =>
         /\ ~EndMarkerArrived(outputData, id)
         /\ delivered'[id].kind = "CommandTimeout"]_vars

\* C7 amended: when the timer of an in-flight normal-mode request runs, the
\* accumulator holds no complete frame of it (start marker and end marker with
\* exit code) and the outcome is CommandTimeout; a success is delivered only to
\* the request in flight, before its timer has run, by a chunk that completes
\* the frame, and carries an exit code the shell sent; CommandTimeout is
\* delivered only by the timer of the request in flight; and the timer of a
\* request is armed in the step that writes it to the channel, never while it
\* waits in the queue
C7_TimeoutIffNoCompleteFrame ==
  [][\A id \in CommandIds :
       /\ (TimerRuns(id) /\ currentCommand.id = id /\ ~currentCommand.raw) =>
            /\ ~FrameComplete(outputData, id)
            /\ delivered'[id].kind = "CommandTimeout"
       /\ (Delivers(id) /\ delivered'[id].kind = "success" /\ ~currentCommand.raw) =>
            /\ currentCommand.id = id
            /\ id \in cmdTimers
            /\ \E data \in ShellChunks : FrameComplete(outputData \o data, id)
            /\ \E code \in ExitCodeTexts : delivered'[id].code = ParseInt(code)
       /\ (Delivers(id) /\ delivered'[id].kind = "CommandTimeout") =>
            TimerRuns(id) /\ currentCommand.id = id
       /\ (id \in cmdTimers' /\ id \notin cmdTimers) =>
            Dispatches /\ currentCommand'.id = id
       /\ id \in QueuedIds => id \notin cmdTimers]_vars

\* C7 witness: a request that timed out although an end marker of it with an
\* exit code had arrived (its start marker had not)
C7_Witness ==
  /\ delivered[1].kind = "CommandTimeout"
  /\ EndMarkerArrived(outputData, 1)

\* C8: a per-command timeout leaves the session active with its timers
\* running, clears the current command and dispatches the head of the queue,
\* if any; and the pump never stalls: a request waits in the queue only while
\* another one is in flight
C8_TimeoutFatalToCommandOnly ==
  /\ [](currentCommand = NullCommand => commandQueue = <<>>)
  /\ [][\A id \in CommandIds :
          (Delivers(id) /\ delivered'[id].kind = "CommandTimeout") =>
            /\ isActive' /\ shell' = "open"
            /\ keepAliveInterval' /\ sessionTimeout'
            /\ IF commandQueue = <<>>
               THEN currentCommand' = NullCommand /\ written' = written
               ELSE /\ currentCommand' = Head(commandQueue)
                    /\ commandQueue' = Tail(commandQueue)
                    /\ written'.id = Head(commandQueue).id]_vars

\* C8 witness: the first request timed out and the second, a normal-mode
\* request, then completed by framing
C8_Witness ==
  /\ delivered[1].kind = "CommandTimeout"
  /\ delivered[2].kind = "success"
  /\ delivered[2].code = 12
  /\ isActive

\* C9: a keep-alive is written only from a state where the session is active,
\* the queue is empty and no command is in flight; and while a command is in
\* flight the last write to the channel is that command
C9_KeepAliveOnlyWhenIdle ==
  /\ [](currentCommand # NullCommand =>
          written.kind = "command" /\ written.id = currentCommand.id)
  /\ [][(written' # written /\ written'.kind = "keepalive") =>
          /\ isActive
          /\ commandQueue = <<>>
          /\ currentCommand = NullCommand]_vars

\* C9 witness: a keep-alive written after a command got its outcome
C9_Witness ==
  /\ written.kind = "keepalive"
  /\ delivered[1] # NoOutcome

\* ------------------------------------------------------------------------
\* Properties of the output buffer
\* ------------------------------------------------------------------------
\* C5: the buffer never holds more than MAX_SIZE chunks; until the overflow it
\* holds every chunk, in arrival order; the chunk that would make it MAX_SIZE + 1 leaves exactly
\* the TRIM_TO most recent chunks, in arrival order; and its last entry is
\* always the latest chunk
C5_BufferBounded ==
  /\ Len(outputBuffer) <= MAX_SIZE
  /\ nChunks <= MAX_SIZE => Len(outputBuffer) = nChunks
  /\ nChunks = MAX_SIZE =>
       outputBuffer = [i \in 1..MAX_SIZE |-> NumberToString(i)]
  /\ nChunks > 0 => outputBuffer[Len(outputBuffer)] = NumberToString(nChunks)
  /\ nChunks = MAX_SIZE + 1 =>
       /\ Len(outputBuffer) = TRIM_TO
       /\ \A i \in 1..TRIM_TO :
            outputBuffer[i] = NumberToString(MAX_SIZE + 1 - TRIM_TO + i)

\* C5 witness: the state right after the overflow
C5_Witness ==
  /\ sessType = "background"
  /\ nChunks = MAX_SIZE + 1
  /\ Len(outputBuffer) = TRIM_TO

\* ------------------------------------------------------------------------
\* Properties of the pool
\* ------------------------------------------------------------------------
\* C10: a call made while its key has a connected entry returns that entry's
\* client, and calls that differ in username, host or port return different
\* clients, held under different keys
C10_SameKeySameTransport ==
  \A a \in acquired :
    /\ a.prior # 0 => a.client = a.prior
    /\ \A b \in acquired :
         <<a.username, a.host, a.port>> # <<b.username, b.host, b.port>> =>
           /\ a.client # b.client
           /\ ConnectionKey(a.username, a.host, a.port)
                # ConnectionKey(b.username, b.host, b.port)

\* C11: overlapping getConnection calls for the same (username, host, port)
\* never create two clients: of the calls in progress for one triple, at most
\* one client is being connected, which all of them are to receive
C11_ConcurrentAcquireCoalesces ==
  \A p \in pending : \A q \in pending :
    (/\ p.call # q.call
     /\ <<p.username, p.host, p.port>> = <<q.username, q.host, q.port>>
     /\ p.client # 0
     /\ q.client # 0) => p.client = q.client

\* C12: the number of entries in the pool never exceeds the connection cap in
\* any reachable state, also when getConnection calls for distinct keys overlap
C12_PoolWithinCap == Cardinality(DOMAIN connections) <= maxConnections

\* C13: when the client of a pool entry emits close, the entry is marked
\* disconnected; a later call for that key that has to connect evicts the
\* entry; no call ever returns a closed client, and the client a call connected
\* is, when the call returns, the connected entry of its key
C13_ClosedTransportReplaced ==
  [][/\ \A c \in 1..Len(clients) :
          (/\ clients[c].state # "closed"
           /\ clients'[c].state = "closed"
           /\ clients[c].key \in DOMAIN connections
           /\ connections[clients[c].key].client = c)
            => ~connections'[clients[c].key].connected
     /\ \A p \in pending' \ pending :
          p.client = 0 =>
            ConnectionKey(p.username, p.host, p.port) \notin DOMAIN connections'
     /\ \A a \in acquired' \ acquired :
          LET k == ConnectionKey(a.username, a.host, a.port)
          IN /\ clients'[a.client].state = "ready"
             /\ k \in DOMAIN connections'
             /\ connections'[k] = [client |-> a.client, connected |-> TRUE]
    ]_vars

\* C13 witness: the first client of u@h:22 has closed, and a later call for
\* u@h:22 returned a second client, which is the entry of the key
C13_Witness ==
  LET k == ConnectionKey(<<"u">>, <<"h">>, 22)
  IN /\ Len(clients) = 2
     /\ clients[1] = [key |-> k, state |-> "closed"]
     /\ Acquisition(<<"u">>, <<"h">>, 22, 1, 0) \in acquired
     /\ Acquisition(<<"u">>, <<"h">>, 22, 2, 0) \in acquired
     /\ connections = (k :> [client |-> 2, connected |-> TRUE])

\* ------------------------------------------------------------------------
\* Properties of the manager
\* ------------------------------------------------------------------------
\* call n of the manager returns in this step
ManagerCallReturns(n) ==
  /\ n \in 1..Len(managerCalls')
  /\ managerCalls'[n].result # "pending"
  /\ (n \in 1..Len(managerCalls) => managerCalls[n].result = "pending")

\* C14: closeSession(id) returns true if and only if the id was registered
\* when the call started; a call that returns false leaves the registry as it
\* is; and when a call returns true the id is no longer registered, whether or
\* not the channel of the session has emitted close
C14_CloseSessionResult ==
  [][\A n \in 1..Len(managerCalls') :
       (managerCalls'[n].op = "closeSession" /\ ManagerCallReturns(n)) =>
         /\ managerCalls'[n].result \in {"true", "false"}
         /\ (managerCalls'[n].result = "true") = managerCalls'[n].existed
         /\ managerCalls'[n].sessionId \notin DOMAIN sessions'
         /\ managerCalls'[n].result = "false" => sessions' = sessions
    ]_vars

\* C14 witness: closeSession returned true for a registered session whose
\* channel has not emitted close, and the registry is empty
C14_Witness ==
  /\ \E n \in 1..Len(managerCalls) :
       /\ managerCalls[n].op = "closeSession"
       /\ managerCalls[n].result = "true"
       /\ managerCalls[n].existed
  /\ Len(sessionObjects) = 1
  /\ sessionObjects[1].shell = "ended"
  /\ sessionObjects[1].emitted = {}
  /\ sessions = <<>>

\* C15: a session that died without closeSession (its channel closed, it
\* emitted error, or its inactivity timer fired) is not in the registry
C15_DeadSessionsUnregistered ==
  \A id \in DOMAIN sessions : sessionObjects[sessions[id]].emitted = {}

\* C16: createSession with a registered id fails with Duplicate and leaves the
\* registry as it is, and an id that is registered is never given to another
\* session object, also when createSession calls overlap
C16_SessionIdsUnique ==
  [][/\ \A id \in DOMAIN sessions :
          id \in DOMAIN sessions' => sessions'[id] = sessions[id]
     /\ (Len(managerCalls') = Len(managerCalls) + 1
           /\ managerCalls'[ThisCall].op = "createSession"
           /\ managerCalls'[ThisCall].existed) =>
          /\ managerCalls'[ThisCall].result = "Duplicate"
          /\ sessions' = sessions
          /\ sessionObjects' = sessionObjects
    ]_vars

\* C17: the number of registered sessions never exceeds maxSessions, and a
\* createSession that fails with LimitExceeded asked the pool for nothing
C17_SessionsWithinLimit ==
  /\ Cardinality(DOMAIN sessions) <= maxSessions
  /\ \A n \in 1..Len(managerCalls) :
       managerCalls[n].result = "LimitExceeded" => ~managerCalls[n].pool

\* command matches a pattern of the list
MatchesSome(list, command) == \E p \in list : PatternMatches(p, command)

\* the calls that carry a command: executeCommand and executeInSession
CommandCalls ==
  {n \in 1..Len(managerCalls) :
     managerCalls[n].op \in {"executeCommand", "executeInSession"}}

C20_BackgroundReturnsAtEnqueue ==
  [][/\ nextId' = nextId + 1 =>
          /\ returned'[nextId].kind = "success"
          /\ returned'[nextId].code = 0
          /\ returned'[nextId].stdout =
               <<"Command '">> \o commandHistory'[Len(commandHistory')]
                 \o <<"' queued in background session '", "s1", "'">>
     /\ \A id \in CommandIds :
          returned[id] # NoOutcome => returned'[id] = returned[id]
    ]_vars

\* C20 witness: two commands were answered with code 0, the second while it
\* is queued behind the first, which is in flight; neither has an outcome yet
C20_Witness ==
  /\ sessType = "background"
  /\ currentCommand.id = 1
  /\ QueuedIds = {2}
  /\ returned[1] = QueuedResult(<<"ls">>)
  /\ returned[2] = QueuedResult(<<"ls">>)
  /\ delivered = [i \in CommandIds |-> NoOutcome]

C21_RawCompletedByTimerOnly ==
  [][/\ (Dispatches /\ currentCommand'.raw) =>
          /\ written'.text = currentCommand'.command \o <<"\n">>
          /\ outputData' = <<>>
     /\ (currentCommand.raw /\ nChunks' = nChunks + 1) =>
          /\ currentCommand' = currentCommand
          /\ delivered' = delivered
          /\ Len(outputData') > Len(outputData)
          /\ SubSeq(outputData', 1, Len(outputData)) = outputData
     /\ \A id \in CommandIds :
          /\ (currentCommand.raw /\ currentCommand.id = id /\ TimerRuns(id)) =>
               Delivers(id)
          /\ (currentCommand.raw /\ currentCommand.id = id /\ Delivers(id)) =>
               /\ TimerRuns(id)
               /\ delivered'[id] =
                    [kind |-> "success", code |-> 0, stdout |-> outputData]
               /\ IF commandQueue = <<>>
                  THEN currentCommand' = NullCommand
                  ELSE /\ currentCommand' = Head(commandQueue)
                       /\ commandQueue' = Tail(commandQueue)
                       /\ written'.id = Head(commandQueue).id
    ]_vars

\* C21 witness: the first command, raw, was resolved by its timer with the
\* text of its own end marker as stdout, and the second one is in flight
C21_Witness ==
  /\ delivered[1] =
       [kind |-> "success", code |-> 0,
        stdout |-> EndDelimiter(1) \o <<":", "0", "\n">>]
  /\ 1 \notin cmdTimers
  /\ currentCommand.id = 2
  /\ written.id = 2

\* C22: what getSessionInfo returns is isolated from the session: it holds
\* the session's isActive, commandHistory and environmentVars of the moment of
\* the call, whatever was done to earlier snapshots, and a write of the caller
\* to a snapshot (a push on its commandHistory, a toggle of its isActive, a
\* set on its environmentVars) changes no field of the session
C22_SnapshotIsolated ==
  [][/\ (snapshot' # snapshot /\ snapshot'.mutations = 0) =>
          /\ snapshot'.isActive = isActive
          /\ Deref(snapshot'.commandHistory, commandHistory') = commandHistory
          /\ Deref(snapshot'.environmentVars, environmentVars') = environmentVars
          /\ commandHistory' = commandHistory
          /\ environmentVars' = environmentVars
     /\ snapshot'.mutations > snapshot.mutations =>
          UNCHANGED <<sessType, sessMode, shellType, isInitialized, isActive,
                      shell, commandQueue, currentCommand, outputData,
                      outputBuffer, commandHistory, keepAliveInterval,
                      sessionTimeout, cmdTimers, nextId, delivered, sinkCalls,
                      written, events, lastActivity, timerDeadline, closeRan,
                      environmentVars>>
    ]_vars

\* C22 witness: the caller pushed on the returned history and toggled the
\* returned isActive of a snapshot of an active session with one command
C22_Witness ==
  /\ isActive
  /\ commandHistory = <<<<"ls">>>>
  /\ environmentVars = {}
  /\ snapshot.taken
  /\ snapshot.isActive = FALSE
  /\ snapshot.commandHistory.content = <<<<"ls">>, <<"fake command">>>>
  /\ snapshot.mutations = 2

\* C23: getBufferedOutput(lines, clear) with lines <= 0 fails with
\* InvalidArgument and leaves the buffer as it is, clear or not; otherwise it
\* returns the last min(lines, length) entries of the buffer, all of them when
\* lines is not given, in arrival order, and the buffer is empty afterwards
\* when clear is set and unchanged when it is not; what was returned does not
\* change until the next call
C23_BufferedOutput ==
  [][IF bufferResult'.turn # bufferResult.turn
     THEN LET asked == bufferResult'.asked
              length == Len(outputBuffer)
              count == IF asked.given /\ asked.n < length THEN asked.n
                       ELSE length
          IN IF asked.given /\ asked.n <= 0
             THEN /\ bufferResult'.kind = "InvalidArgument"
                  /\ outputBuffer' = outputBuffer
             ELSE /\ bufferResult'.kind = "ok"
                  /\ bufferResult'.lines =
                       [i \in 1..count |-> outputBuffer[length - count + i]]
                  /\ outputBuffer' =
                       IF bufferResult'.clear THEN <<>> ELSE outputBuffer
     ELSE bufferResult' = bufferResult
    ]_vars

\* C23 witness: with three chunks buffered, getBufferedOutput(2, true)
\* returned the last two and emptied the buffer
C23_Witness ==
  /\ bufferResult.kind = "ok"
  /\ bufferResult.asked = [given |-> TRUE, n |-> 2]
  /\ bufferResult.clear
  /\ bufferResult.lines = <<<<"2">>, <<"3">>>>
  /\ outputBuffer = <<>>
  /\ nChunks = 3

\* an executeCommand call is accepted in this step
Accepts == nextId' = nextId + 1

\* the inactivity timer's callback emits timeout in this step
EmitsTimeout ==
  /\ Len(events') = Len(events) + 1
  /\ events'[Len(events')].name = "timeout"

\* C24: the inactivity timer runs from the last accepted executeCommand call,
\* or from initialize: each of them arms it for sessionTimeoutMs from that
\* moment and no other step moves it; it is never overdue, and when it is due
\* its callback emits timeout on the still active session and closes it:
\* inactive, both timers cancelled, the channel ended
C24_InactivityTimer ==
  [][/\ (Accepts \/ (~isInitialized /\ isInitialized')) =>
          /\ sessionTimeout'
          /\ timerDeadline' = now + sessionTimeoutMs
     /\ ~(Accepts \/ (~isInitialized /\ isInitialized')) =>
          \/ sessionTimeout' /\ timerDeadline' = timerDeadline
          \/ ~sessionTimeout' /\ timerDeadline' = NoDeadline
     /\ sessionTimeout' => now' <= timerDeadline'
     /\ EmitsTimeout =>
          /\ sessionTimeout
          /\ now = timerDeadline
          /\ events'[Len(events')].isActive = isActive
          /\ ~isActive' /\ ~sessionTimeout' /\ ~keepAliveInterval'
          /\ shell' = "ended"
          /\ closeRan'
    ]_vars

\* C24 witness: a command accepted at time 1 moved the deadline from 2 to 3,
\* and the timer ran at 3: timeout was emitted on the active session, which
\* is closed
C24_Witness ==
  /\ lastActivity = 1
  /\ now = 3
  /\ Len(events) = 1
  /\ events[1].name = "timeout"
  /\ events[1].isActive
  /\ ~isActive
  /\ shell = "ended"

\* the request an accepted executeCommand call has just queued or dispatched
NewRequest ==
  IF currentCommand'.id = nextId THEN currentCommand'
  ELSE commandQueue'[Len(commandQueue')]

\* C27: a rejected executeCommand changes nothing: an empty command or a
\* timeout <= 0 is answered with InvalidArgument, a session that is not
\* initialized or not active with SessionInactive, and in that step the queue,
\* the command in flight, the channel, commandHistory, lastActivity and the
\* inactivity timer are as before; and a call is accepted only with a command,
\* a positive timeout and an active session
C27_RejectedCallChangesNothing ==
  [][/\ thrown' # thrown =>
          /\ thrown'.error =
               IF thrown'.command = <<>> \/ thrown'.timeout <= 0
               THEN "InvalidArgument"
               ELSE "SessionInactive"
          /\ thrown'.error = "SessionInactive" => ~(isInitialized /\ isActive)
          /\ UNCHANGED <<commandQueue, currentCommand, written, commandHistory,
                         lastActivity, sessionTimeout, timerDeadline, nextId,
                         cmdTimers, outputData, isActive, shell>>
     /\ Accepts =>
          /\ thrown' = thrown
          /\ NewRequest.command # <<>>
          /\ NewRequest.timeout > 0
          /\ isInitialized /\ isActive
    ]_vars

\* C27 witness: at time 1, after a command accepted at time 0, a call with
\* timeout 0 was rejected: the deadline is still 2 and lastActivity still 0
C27_Witness ==
  /\ thrown = [error |-> "InvalidArgument", command |-> <<"ls">>, timeout |-> 0]
  /\ now = 1
  /\ isActive
  /\ commandHistory = <<<<"ls">>>>
  /\ lastActivity = 0
  /\ timerDeadline = sessionTimeoutMs

\* C28: an inactive session holds no request, in every state and whenever
\* the listeners of closed are called: its queue is empty and it has no
\* command in flight
C28_InactiveHoldsNothing ==
  /\ ~isActive => (commandQueue = <<>> /\ currentCommand = NullCommand)
  /\ \A i \in 1..Len(events) :
       (events[i].name = "closed" /\ ~events[i].isActive) =>
         events[i].requests = 0

\* C29: an active session has its shell channel open, neither ended nor
\* closed, and its keep-alive ticker and its inactivity timer armed
C29_ActiveHasChannelAndTimers ==
  isActive => (shell = "open" /\ keepAliveInterval /\ sessionTimeout)

\* C29 witness: an active session with its second command in flight, the
\* first one answered
C29_Witness ==
  /\ isActive
  /\ shell = "open"
  /\ keepAliveInterval /\ sessionTimeout
  /\ currentCommand.id = 2
  /\ delivered[1].kind = "success"

\* C30: once close() has run the session is inactive, with both timers
\* cancelled, no command in flight and an empty queue, and no later step
\* writes to the shell channel or emits timeout
C30_NothingAfterClose ==
  [][closeRan =>
       /\ ~isActive' /\ ~keepAliveInterval' /\ ~sessionTimeout'
       /\ currentCommand' = NullCommand /\ commandQueue' = <<>>
       /\ written' = written
       /\ ~EmitsTimeout
    ]_vars

\* ------------------------------------------------------------------------
\* Properties of the tear-down
\* ------------------------------------------------------------------------
\* closeAll returns in this step
CloseAllReturns == closingAll.stage = "pool" /\ closingAll'.stage = "done"

\* C25: when closeAll returns, the registry is empty and the pool holds no
\* entry
C25_CloseAllLeavesNothing ==
  [][CloseAllReturns => (sessions' = <<>> /\ connections' = <<>>)]_vars

\* end() is called on a pooled transport in this step
EndsTransport ==
  \E c \in DOMAIN clients : clients[c].state # "ending" /\ clients'[c].state = "ending"

\* C26: when closeAll calls end() on a pooled transport, close has been
\* called on every session that was registered when closeAll was called, and
\* no session is registered
C26_SessionsClosedBeforeTransports ==
  [][EndsTransport =>
       /\ \A o \in closingAll.registered :
            /\ ~sessionObjects[o].isActive
            /\ sessionObjects[o].shell # "open"
            /\ ~sessionObjects[o].timer
       /\ sessions' = <<>>
    ]_vars

\* C26 witness: closeAll, called with one active session registered, has
\* closed it and waits for the transport it ended
C26_Witness ==
  /\ closingAll.stage = "pool"
  /\ closingAll.registered # {}
  /\ \A o \in closingAll.registered : sessionObjects[o].shell = "ended"
  /\ disconnects.waits # {}
  /\ \A c \in disconnects.waits : clients[c].state = "ending"

\* ------------------------------------------------------------------------
\* Properties of the framing
\* ------------------------------------------------------------------------
\* chunk data is handled in this step while a normal-mode command is in flight
Frames(data) ==
  /\ currentCommand # NullCommand
  /\ ~currentCommand.raw
  /\ handleShellOutput(data)

\* C31: a chunk that leaves the accumulator without the start marker of the
\* command in flight does not resolve it, whether or not an exit-code marker
\* is there: the command stays in flight and its sink is not called
C31_NoResolveWithoutStart ==
  [][\A data \in FrameChunks :
       (/\ Frames(data)
        /\ IndexOf(outputData \o data, StartDelimiter(currentCommand.id)) = -1)
       => /\ currentCommand' = currentCommand
          /\ delivered' = delivered
          /\ sinkCalls' = sinkCalls
    ]_vars

\* C31 witness: the command in flight has its exit-code marker in the
\* accumulator and not its start marker
C31_Witness ==
  /\ currentCommand # NullCommand
  /\ ~currentCommand.raw
  /\ parseExitCode(outputData, EndDelimiter(currentCommand.id)) # NoExitCode
  /\ IndexOf(outputData, StartDelimiter(currentCommand.id)) = -1
  /\ delivered[currentCommand.id] = NoOutcome

\* the 0-based index of the last occurrence of p in s, or -1
LastIndexOf(s, p) ==
  IF \E i \in 1..(Len(s) + 1) : StartsWithAt(s, p, i)
  THEN (CHOOSE i \in 1..(Len(s) + 1) :
          /\ StartsWithAt(s, p, i)
          /\ \A j \in (i + 1)..(Len(s) + 1) : ~StartsWithAt(s, p, j)) - 1
  ELSE -1

\* text without one leading and one trailing blank line, if present
WithoutOuterBlankLines(text) ==
  LET lines0 == SplitLines(text)
      lines1 == IF lines0[1] = <<>> THEN Tail(lines0) ELSE lines0
      lines2 == IF Len(lines1) > 0 /\ lines1[Len(lines1)] = <<>>
                THEN SubSeq(lines1, 1, Len(lines1) - 1)
                ELSE lines1
  IN JoinLines(lines2)

\* the text strictly between the last start marker of request id and the
\* position of its end marker with the given exit code, outer blank lines
\* stripped
FramedStdout(acc, id, code) ==
  LET startPattern == StartDelimiter(id)
      first == LastIndexOf(acc, startPattern) + Len(startPattern)
      last == IndexOf(acc, EndDelimiter(id) \o <<":">> \o NumberToString(code))
  IN WithoutOuterBlankLines(SubSeq(acc, first + 1, last))

\* C32: a normal-mode command resolved by framing gets the parsed exit code
\* and, as stdout, the accumulator between the last occurrence of its start
\* marker and its end marker, one leading and one trailing blank line
\* stripped
C32_StdoutBetweenLastStartAndEnd ==
  [][\A data \in FrameChunks :
       (/\ Frames(data)
        /\ delivered'[currentCommand.id] # delivered[currentCommand.id])
       => LET id == currentCommand.id
              acc == outputData \o data
              outcome == delivered'[id]
          IN /\ outcome.kind = "success"
             /\ outcome.code = parseExitCode(acc, EndDelimiter(id))
             /\ outcome.stdout = FramedStdout(acc, id, outcome.code)
    ]_vars

\* the positions of acc where the end marker of request id, a colon and a
\* digit stand
ExitCodeMarks(acc, id) ==
  {j \in 1..Len(acc) :
     /\ StartsWithAt(acc, EndDelimiter(id) \o <<":">>, j)
     /\ DigitRun(acc, j + Len(EndDelimiter(id)) + 1) # <<>>}

\* those that follow a start marker of the request
ExitCodeMarksAfterStart(acc, id) ==
  {j \in ExitCodeMarks(acc, id) :
     \E i \in 1..j : /\ StartsWithAt(acc, StartDelimiter(id), i)
                     /\ i + Len(StartDelimiter(id)) <= j}

\* the number written at mark j
ExitCodeAt(acc, id, j) == ParseInt(DigitRun(acc, j + Len(EndDelimiter(id)) + 1))

\* C33: when the accumulator of the command in flight comes to hold its start
\* marker followed by END:N, the command is resolved with code N, whatever
\* the shell; and no exit code is extracted, and the command is not resolved,
\* while no END:digits is in the accumulator
C33_CodeIsTheNumberAfterEnd ==
  [][\A data \in FrameChunks :
       Frames(data)
       => LET id == currentCommand.id
              acc == outputData \o data
              marks == ExitCodeMarksAfterStart(acc, id)
          IN /\ marks # {}
                => /\ delivered'[id].kind = "success"
                   /\ \E j \in marks :
                        /\ \A k \in marks : j <= k
                        /\ delivered'[id].code = ExitCodeAt(acc, id, j)
             /\ ExitCodeMarks(acc, id) = {}
                => /\ parseExitCode(acc, EndDelimiter(id)) = NoExitCode
                   /\ delivered'[id] = NoOutcome
    ]_vars

\* C33 witness: a command was resolved with the two-digit exit code that
\* followed its start marker, on a cmd shell
C33_Witness ==
  /\ shellType = "cmd"
  /\ delivered[1].kind = "success"
  /\ delivered[1].code = 12
  /\ ExitCodeMarksAfterStart(outputData, 1) # {}

\* the request written to the channel last has been resolved by framing and
\* nothing is in flight or queued: outputData still holds what the shell sent
\* for it up to the chunk that resolved it
LastResolvedByFraming ==
  /\ currentCommand = NullCommand
  /\ commandQueue = <<>>
  /\ nextId > 1
  /\ delivered[nextId - 1].kind = "success"

\* C36: the result of a command does not depend on where the stream is cut:
\* when more of the stream arrives after the command was resolved, the whole
\* stream received since its dispatch, had it come as one chunk, frames to the
\* stdout and exit code that were delivered
C36_ResultIndependentOfChunking ==
  [][\A data \in FrameChunks :
       (LastResolvedByFraming /\ handleShellOutput(data))
       => parseCommandOutput(RequestOf(nextId - 1), outputData \o data)
            = delivered[nextId - 1]
    ]_vars

\* nothing is decided in this step: the command in flight, the queue, the
\* outcomes delivered and the channel are as they were
DecidesNothing ==
  /\ currentCommand' = currentCommand
  /\ commandQueue' = commandQueue
  /\ delivered' = delivered
  /\ sinkCalls' = sinkCalls
  /\ written' = written

\* C35: while a command is in flight, a chunk carrying the end marker of an
\* earlier request that has its outcome decides nothing, and the timer of a
\* request other than the one in flight decides nothing when it fires
C35_EarlierCommandDecidesNothing ==
  [][/\ \A a \in CommandIds, data \in FrameChunks :
          (/\ a # currentCommand.id
           /\ delivered[a] # NoOutcome
           /\ IndexOf(data, EndDelimiter(a)) # -1
           /\ Frames(data))
          => DecidesNothing
     /\ \A a \in CommandIds :
          (a # currentCommand.id /\ TimerRuns(a)) => DecidesNothing
    ]_vars

\* C35 witness: request 1 was resolved, request 2 is in flight with the end
\* marker of request 1 in its accumulator, and the timer of request 1 has
\* fired since
C35_Witness ==
  /\ delivered[1].kind = "success"
  /\ currentCommand.id = 2
  /\ delivered[2] = NoOutcome
  /\ IndexOf(outputData, EndDelimiter(1)) # -1
  /\ 1 \notin cmdTimers
  /\ 2 \in cmdTimers

\* ------------------------------------------------------------------------
\* Properties of the pool's disconnectAll
\* ------------------------------------------------------------------------
\* disconnectAll is called in this step
DisconnectAllCalled == ~disconnects.active /\ disconnects'.active

\* disconnectAll returns in this step
DisconnectAllReturns == disconnects.active /\ ~disconnects'.active

\* C34: disconnectAll calls end() on the client of every entry marked
\* connected and waits for those clients only; it returns only when no wait
\* is left, with the pool empty; and it always returns
C34_DisconnectAllDrains ==
  /\ [][/\ DisconnectAllCalled
           => /\ \A k \in DOMAIN connections :
                   connections[k].connected
                   => /\ clients'[connections[k].client].state = "ending"
                      /\ connections[k].client \in disconnects'.waits
              /\ disconnects'.waits = ConnectedClients(connections)
        /\ DisconnectAllReturns
           => (disconnects.waits = {} /\ connections' = <<>>)
       ]_vars
  /\ (disconnects.active ~> ~disconnects.active)

\* C34 witness: disconnectAll has returned and the pool is empty, although
\* one client it ended has not emitted close; another client has closed
C34_Witness ==
  /\ ~disconnects.active
  /\ connections = <<>>
  /\ \E c \in DOMAIN clients : clients[c].state = "ending"
  /\ \E c \in DOMAIN clients : clients[c].state = "closed"

\* ------------------------------------------------------------------------
\* Properties of the pool's entries
\* ------------------------------------------------------------------------
\* C38: the connected flag of an entry goes from true to false only in a step
\* in which the client stored in that entry closes
C38_OnlyOwnClientDisconnects ==
  [][\A k \in (DOMAIN connections) \cap (DOMAIN connections') :
       (connections[k].connected /\ ~connections'[k].connected)
       => /\ connections'[k].client = connections[k].client
          /\ clients[connections[k].client].state # "closed"
          /\ clients'[connections[k].client].state = "closed"
    ]_vars

\* C37: a registry entry goes away only through its own session: in a step
\* that takes an id away from a registered session object, that object emits
\* an event or is the one a closeSession call's FORCE_CLOSE timer was armed for
OwnEvent(o) == sessionObjects'[o].emitted # sessionObjects[o].emitted

OwnForceClose(o) ==
  \E l \in ListenersOn(o) :
    /\ l.call \in ForceCloseArmed
    /\ managerCalls'[l.call].result = "true"

C37_RemovedOnlyByOwnSession ==
  [][\A id \in DOMAIN sessions :
       (id \notin DOMAIN sessions' \/ sessions'[id] # sessions[id])
       => (OwnEvent(sessions[id]) \/ OwnForceClose(sessions[id]))
    ]_vars

\* C40: a session that was registered and is in the registry no more is
\* inactive, or becomes inactive without another call
WasRegistered(o) == \E l \in ListenersOn(o) : l.call = 0

Orphaned(o) ==
  /\ o \in 1..Len(sessionObjects)
  /\ WasRegistered(o)
  /\ o \notin Registered(sessions)

C40_RemovedSessionsGoInactive ==
  \A o \in 1..MaxManagerCalls :
    (Orphaned(o) /\ sessionObjects[o].isActive)
      ~> (Orphaned(o) /\ ~sessionObjects[o].isActive)

\* a session removed on its 'error' event, still active then, that its
\* inactivity timer has closed
C40_Witness ==
  \E o \in 1..Len(sessionObjects) :
    /\ Orphaned(o)
    /\ {"error", "timeout"} \subseteq sessionObjects[o].emitted
    /\ ~sessionObjects[o].isActive

\* C39: closed is terminal: a session that was active and is active no more
\* stays inactive, is given no new shell channel, and has no timer armed again
WentInactive == isInitialized /\ ~isActive

C39_ClosedIsTerminal ==
  [][WentInactive =>
       /\ ~isActive'
       /\ shell' # "open"
       /\ ~keepAliveInterval' /\ ~sessionTimeout'
    ]_vars

====
